---------------------------- MODULE Spec2Model ----------------------------
(***************************************************************************)
(* The job engine of the service manager (src/core/job.c): per-unit job    *)
(* slots, the job-type algebra, the run queue, finish/propagation, timers  *)
(* and (de)serialization across live-reload.                               *)
(*                                                                         *)
(* A Job object is a record in the heap map `job`, addressed by a handle   *)
(* (the C pointer).  The functions of job.c are operators that take the    *)
(* manager state as a record `s` and return the state after the call; an   *)
(* action packs the variables into such a record (Cur), applies the        *)
(* handler and commits the result.                                         *)
(***************************************************************************)
EXTENDS Integers, Sequences, FiniteSets, TLC

(***************************************************************************)
(* Bounds of the model.                                                    *)
(***************************************************************************)
MaxJobs == 3
MaxRequests == 2

Handles == 1..MaxJobs
NoJob == 0
Ids == 0..MaxJobs

(***************************************************************************)
(* enum JobType (job.h).  The first five are the merge domain, in the row  *)
(* order of job_merging_table.                                             *)
(***************************************************************************)
JOB_START == 0
JOB_VERIFY_ACTIVE == 1
JOB_STOP == 2
JOB_RELOAD == 3
JOB_RESTART == 4
JOB_TYPE_MAX_MERGING == 5
JOB_NOP == 5
JOB_TYPE_MAX_IN_TRANSACTION == 6
JOB_TRY_RESTART == 6
JOB_RELOAD_OR_START == 7
JOB_TRY_RELOAD == 8
JOB_TYPE_MAX == 9
JOB_TYPE_INVALID == -1

JobTypes == 0..(JOB_TYPE_MAX - 1)
MergeTypes == 0..(JOB_TYPE_MAX_MERGING - 1)

(* enum JobState *)
JOB_WAITING == 0
JOB_RUNNING == 1
JOB_STATE_MAX == 2

(* enum JobResult *)
JOB_DONE == 0
JOB_CANCELED == 1
JOB_TIMEOUT == 2
JOB_FAILED == 3
JOB_DEPENDENCY == 4
JOB_SKIPPED == 5
JOB_INVALID == 6
JOB_ASSERT == 7
JOB_UNSUPPORTED == 8
JOB_RESULT_MAX == 9
JOB_RESULT_INVALID == -1

JobResults == 0..(JOB_RESULT_MAX - 1)

(* enum UnitActiveState, as seen through unit_active_state() *)
UNIT_ACTIVE == "active"
UNIT_RELOADING == "reloading"
UNIT_INACTIVE == "inactive"
UNIT_FAILED == "failed"
UNIT_ACTIVATING == "activating"
UNIT_DEACTIVATING == "deactivating"
UnitActiveStates ==
  {UNIT_ACTIVE, UNIT_RELOADING, UNIT_INACTIVE, UNIT_FAILED, UNIT_ACTIVATING, UNIT_DEACTIVATING}

UNIT_IS_ACTIVE_OR_RELOADING(t) == t = UNIT_ACTIVE \/ t = UNIT_RELOADING
UNIT_IS_INACTIVE_OR_DEACTIVATING(t) ==
  t = UNIT_INACTIVE \/ t = UNIT_FAILED \/ t = UNIT_DEACTIVATING

(* errno values returned (negated) by the unit primitives *)
ENOEXEC == 8
EAGAIN == 11
EEXIST == 17
EINVAL == 22
EBADR == 53
EPROTO == 71
ENOTSUP == 95
EALREADY == 114
EIO == 5

(***************************************************************************)
(* Job-type algebra.                                                       *)
(***************************************************************************)
(* a table in which reload merged with verify-active stays verify-active *)
job_merging_table_reload_lost ==
  << JOB_START,
     -1, -1,
     JOB_RELOAD_OR_START, JOB_VERIFY_ACTIVE, -1,
     JOB_RESTART, JOB_RESTART, -1, JOB_RESTART >>

job_merging_table ==
  << JOB_START,
     -1, -1,
     JOB_RELOAD_OR_START, JOB_RELOAD, -1,
     JOB_RESTART, JOB_RESTART, -1, JOB_RESTART >>

(* the two range assertions of job_type_lookup_merge *)
job_type_lookup_merge_asserts(a, b) ==
  /\ a >= 0 /\ a < JOB_TYPE_MAX_MERGING
  /\ b >= 0 /\ b < JOB_TYPE_MAX_MERGING

(* an index computed without ordering the two types first *)
job_type_lookup_merge_index_unordered(a, b) == ((a - 1) * a) \div 2 + b

(* the index into the table, counted from 0, that a pair of different types reads *)
job_type_lookup_merge_index(a, b) ==
  LET hi == IF a < b THEN b ELSE a
      lo == IF a < b THEN a ELSE b
  IN ((hi - 1) * hi) \div 2 + lo

job_type_lookup_merge(a, b) ==
  IF a = b THEN a
  ELSE job_merging_table[job_type_lookup_merge_index(a, b) + 1]

job_type_is_mergeable(a, b) == job_type_lookup_merge(a, b) >= 0

job_type_is_conflicting(a, b) == ~job_type_is_mergeable(a, b)

job_type_is_superset(a, b) == a = job_type_lookup_merge(a, b)

(* a test that lets a reload merge into a running job as well *)
job_type_allows_late_merge_always(t) == TRUE

job_type_allows_late_merge(t) == t # JOB_RELOAD

(* the types the switch has a case for; any other reaches assert_not_reached *)
job_type_is_redundant_asserts(a) ==
  a \in {JOB_START, JOB_STOP, JOB_VERIFY_ACTIVE, JOB_RELOAD, JOB_RESTART, JOB_NOP}

(* a test that takes a stop job for redundant on a deactivating unit as well *)
job_type_is_redundant_deactivating_too(a, b) ==
  CASE a = JOB_START -> b = UNIT_ACTIVE \/ b = UNIT_RELOADING
    [] a = JOB_STOP -> b = UNIT_INACTIVE \/ b = UNIT_FAILED \/ b = UNIT_DEACTIVATING
    [] a = JOB_VERIFY_ACTIVE -> b = UNIT_ACTIVE \/ b = UNIT_RELOADING
    [] a = JOB_RELOAD -> b = UNIT_RELOADING
    [] a = JOB_RESTART -> b = UNIT_ACTIVATING
    [] a = JOB_NOP -> TRUE
    [] OTHER -> FALSE

job_type_is_redundant(a, b) ==
  CASE a = JOB_START -> b = UNIT_ACTIVE \/ b = UNIT_RELOADING
    [] a = JOB_STOP -> b = UNIT_INACTIVE \/ b = UNIT_FAILED
    [] a = JOB_VERIFY_ACTIVE -> b = UNIT_ACTIVE \/ b = UNIT_RELOADING
    [] a = JOB_RELOAD -> b = UNIT_RELOADING
    [] a = JOB_RESTART -> b = UNIT_ACTIVATING
    [] a = JOB_NOP -> TRUE
    [] OTHER -> FALSE

(* job_type_collapse that returns every type as it is *)
job_type_collapse_none(t, active) == t

job_type_collapse(t, active) ==
  CASE t = JOB_TRY_RESTART ->
         IF UNIT_IS_INACTIVE_OR_DEACTIVATING(active) THEN JOB_NOP ELSE JOB_RESTART
    [] t = JOB_RELOAD_OR_START ->
         IF UNIT_IS_INACTIVE_OR_DEACTIVATING(active) THEN JOB_START ELSE JOB_RELOAD
    [] OTHER -> t

(* job_type_merge_and_collapse: the new value of *a, for a mergeable pair *)
job_type_merge_and_collapse(a, b, active) ==
  LET t == job_type_lookup_merge(a, b)
  IN IF t < 0 THEN a ELSE job_type_collapse(t, active)


(***************************************************************************)
(* Unit configuration: the dependency sets and job_timeout of each unit,   *)
(* and the flag the clients of that configuration may set on a request.    *)
(* Configurations 1 and 2 are an ordering and requirement chain            *)
(* 1 <- 2 <- 3; configuration 3 has one edge of every other kind.  A       *)
(* sequence is indexed by unit.                                            *)
(***************************************************************************)
Chain ==
  [ after |-> << {}, {1}, {2} >>,
    before |-> << {2}, {3}, {} >>,
    required_by |-> << {2}, {3}, {} >>,
    bound_by |-> << {}, {}, {} >>,
    required_by_overridable |-> << {}, {}, {} >>,
    conflicted_by |-> << {}, {}, {} >>,
    job_timeout |-> << 1, 0, 0 >>,
    flag |-> "ignore_order" ]

Graphs ==
  << Chain,
     [Chain EXCEPT !.flag = "irreversible"],
     [ after |-> << {}, {}, {1} >>,
       before |-> << {3}, {}, {} >>,
       required_by |-> << {}, {1}, {} >>,
       bound_by |-> << {2}, {}, {} >>,
       required_by_overridable |-> << {3}, {}, {} >>,
       conflicted_by |-> << {}, {3}, {} >>,
       job_timeout |-> << 0, 1, 0 >>,
       flag |-> "override" ] >>

NUnits == Len(Graphs[1].after)
Units == 1..NUnits

VARIABLES
  graph,                 \* which unit configuration is loaded
  job,                   \* heap: handle -> Job object
  n_alloc,               \* number of Job objects allocated so far
  unit_job,              \* u->job, the regular slot
  nop_job,               \* u->nop_job
  jobs,                  \* m->jobs: id -> handle
  run_queue,             \* m->run_queue, head first
  dbus_job_queue,        \* m->dbus_job_queue
  n_installed_jobs,
  n_running_jobs,
  n_failed_jobs,
  n_reloading,
  pending_finished_jobs,
  current_job_id,
  call,                  \* the unit primitive job_run_and_invalidate is inside of
  dispatching,           \* the run queue dispatcher is in its loop
  coldplugged,           \* jobs job_coldplug has run for in this reload
  assert_failed,         \* the assertion that aborted the program, or "none"
  finished_failed,       \* history: the finishes so far with result failed or invalid
  last                   \* what the last handler did

vars ==
  << graph, job, n_alloc, unit_job, nop_job, jobs, run_queue, dbus_job_queue,
     n_installed_jobs, n_running_jobs, n_failed_jobs, n_reloading,
     pending_finished_jobs, current_job_id, call, dispatching, coldplugged,
     assert_failed, finished_failed, last >>

After(u) == Graphs[graph].after[u]
Before(u) == Graphs[graph].before[u]
RequiredBy(u) == Graphs[graph].required_by[u]
BoundBy(u) == Graphs[graph].bound_by[u]
RequiredByOverridable(u) == Graphs[graph].required_by_overridable[u]
ConflictedBy(u) == Graphs[graph].conflicted_by[u]
JobTimeout(u) == Graphs[graph].job_timeout[u]

(***************************************************************************)
(* A Job object right after new0(): every field zero.                      *)
(***************************************************************************)
ZeroJob ==
  [ mem |-> "unused", unit |-> 0, id |-> 0, type |-> 0, state |-> JOB_WAITING,
    installed |-> FALSE, override |-> FALSE, irreversible |-> FALSE,
    ignore_order |-> FALSE, reloaded |-> FALSE, in_run_queue |-> FALSE,
    in_dbus_queue |-> FALSE, timer_event_source |-> FALSE, begin_usec |-> 0,
    sent_dbus_new_signal |-> FALSE, result |-> 0, deserialized_clients |-> << >> ]

FreedJob == [ZeroJob EXCEPT !.mem = "freed"]

NoCall == [active |-> FALSE, id |-> 0, type |-> 0, unit |-> 0, primitive |-> "none"]

NoLast ==
  [ op |-> "init", unit |-> 0, job |-> NoJob, arg |-> 0, ret |-> 0,
    finished |-> << >>, on_failure |-> << >>, emergency |-> << >>,
    removed |-> << >>, displaced |-> NoJob, collapse_inactive |-> FALSE,
    merged_job |-> ZeroJob, deserialized |-> ZeroJob, active |-> "none",
    outcome |-> "none" ]

(***************************************************************************)
(* The manager state as one record, and the per-handler logs.              *)
(***************************************************************************)
Cur ==
  [ job |-> job, n_alloc |-> n_alloc, unit_job |-> unit_job, nop_job |-> nop_job,
    jobs |-> jobs, run_queue |-> run_queue, dbus_job_queue |-> dbus_job_queue,
    n_installed_jobs |-> n_installed_jobs, n_running_jobs |-> n_running_jobs,
    n_failed_jobs |-> n_failed_jobs, n_reloading |-> n_reloading,
    pending_finished_jobs |-> pending_finished_jobs,
    current_job_id |-> current_job_id, call |-> call, assert_failed |-> "none",
    ret |-> 0, finished |-> << >>, on_failure |-> << >>, emergency |-> << >>,
    removed |-> << >>, displaced |-> NoJob, collapse_inactive |-> FALSE,
    merged_job |-> ZeroJob, deserialized |-> ZeroJob, active |-> "none",
    outcome |-> "none" ]

Fail(s, what) ==
  IF s.assert_failed = "none" THEN [s EXCEPT !.assert_failed = what] ELSE s

Ok(s) == s.assert_failed = "none"

RemoveFromSeq(q, h) == SelectSeq(q, LAMBDA x : x # h)

(* sequencing: K applied to the state the previous statement left *)
Bind(v, K(_)) == K(v)


(***************************************************************************)
(* job.c, construction and destruction.                                    *)
(***************************************************************************)
job_new_raw(s, unit) ==
  LET h == s.n_alloc + 1
  IN [s EXCEPT !.n_alloc = h,
               !.job[h] = [ZeroJob EXCEPT !.mem = "live", !.unit = unit,
                                          !.type = JOB_TYPE_INVALID,
                                          !.reloaded = FALSE],
               !.ret = h]

job_new(s, unit, type) ==
  IF ~(type < JOB_TYPE_MAX) THEN Fail(s, "job_new: type < _JOB_TYPE_MAX")
  ELSE Bind(job_new_raw(s, unit), LAMBDA s1 :
         [s1 EXCEPT !.job[s1.ret].id = s.current_job_id,
                    !.current_job_id = @ + 1,
                    !.job[s1.ret].type = type])

(* an unlink that leaves the job on the run queue *)
job_unlink_leaves_run_queue(s, h) ==
  IF s.job[h].installed THEN Fail(s, "job_unlink: !j->installed")
  ELSE [s EXCEPT !.dbus_job_queue = IF s.job[h].in_dbus_queue THEN @ \ {h} ELSE @,
                 !.job[h].in_dbus_queue = FALSE,
                 !.job[h].timer_event_source = FALSE]

job_unlink(s, h) ==
  IF s.job[h].installed THEN Fail(s, "job_unlink: !j->installed")
  ELSE [s EXCEPT !.run_queue = IF s.job[h].in_run_queue THEN RemoveFromSeq(@, h) ELSE @,
                 !.job[h].in_run_queue = FALSE,
                 !.dbus_job_queue = IF s.job[h].in_dbus_queue THEN @ \ {h} ELSE @,
                 !.job[h].in_dbus_queue = FALSE,
                 !.job[h].timer_event_source = FALSE]

job_free(s, h) ==
  IF s.job[h].installed THEN Fail(s, "job_free: !j->installed")
  ELSE [job_unlink(s, h) EXCEPT !.job[h] = FreedJob]

job_set_state(s, h, state) ==
  IF ~(state >= 0 /\ state < JOB_STATE_MAX) THEN Fail(s, "job_set_state: state")
  ELSE IF s.job[h].state = state THEN s
  ELSE LET s1 == [s EXCEPT !.job[h].state = state]
       IN IF ~s1.job[h].installed THEN s1
          ELSE IF state = JOB_RUNNING
            THEN [s1 EXCEPT !.n_running_jobs = @ + 1]
          ELSE IF ~(s1.n_running_jobs > 0)
            THEN Fail(s1, "job_set_state: n_running_jobs > 0")
          ELSE [s1 EXCEPT !.n_running_jobs = @ - 1]

(* an uninstall that leaves the job's id in the index *)
job_uninstall_keeps_index(s, h) ==
  IF ~s.job[h].installed THEN Fail(s, "job_uninstall: j->installed")
  ELSE Bind(job_set_state(s, h, JOB_WAITING), LAMBDA s1 :
         LET j == s1.job[h]
             isnop == j.type = JOB_NOP
             pj == IF isnop THEN s1.nop_job[j.unit] ELSE s1.unit_job[j.unit]
         IN IF ~Ok(s1) THEN s1
            ELSE IF pj # h THEN Fail(s1, "job_uninstall: *pj == j")
            ELSE [s1 EXCEPT
                    !.removed = IF s1.n_reloading <= 0 THEN Append(@, h) ELSE @,
                    !.nop_job[j.unit] = IF isnop THEN NoJob ELSE @,
                    !.unit_job[j.unit] = IF isnop THEN @ ELSE NoJob,
                    !.job[h].installed = FALSE])

job_uninstall(s, h) ==
  IF ~s.job[h].installed THEN Fail(s, "job_uninstall: j->installed")
  ELSE Bind(job_set_state(s, h, JOB_WAITING), LAMBDA s1 :
         LET j == s1.job[h]
             isnop == j.type = JOB_NOP
             pj == IF isnop THEN s1.nop_job[j.unit] ELSE s1.unit_job[j.unit]
         IN IF ~Ok(s1) THEN s1
            ELSE IF pj # h THEN Fail(s1, "job_uninstall: *pj == j")
            ELSE [s1 EXCEPT
                    !.removed = IF s1.n_reloading <= 0 THEN Append(@, h) ELSE @,
                    !.nop_job[j.unit] = IF isnop THEN NoJob ELSE @,
                    !.unit_job[j.unit] = IF isnop THEN @ ELSE NoJob,
                    !.jobs[j.id] = NoJob,
                    !.job[h].installed = FALSE])

job_add_to_run_queue(s, h) ==
  IF ~s.job[h].installed THEN Fail(s, "job_add_to_run_queue: j->installed")
  ELSE IF s.job[h].in_run_queue THEN s
  ELSE [s EXCEPT !.run_queue = << h >> \o @, !.job[h].in_run_queue = TRUE]

job_add_to_dbus_queue(s, h) ==
  IF ~s.job[h].installed THEN Fail(s, "job_add_to_dbus_queue: j->installed")
  ELSE IF s.job[h].in_dbus_queue THEN s
  ELSE [s EXCEPT !.dbus_job_queue = @ \cup {h}, !.job[h].in_dbus_queue = TRUE]

manager_get_job(s, id) == s.jobs[id]

job_change_type(s, h, newtype) == [s EXCEPT !.job[h].type = newtype]

(* a job kept for the end of the reload as it is, without job_unlink *)
job_save_pending_finished_job_linked(s, h) ==
  [s EXCEPT !.pending_finished_jobs = @ \cup {h}]

job_save_pending_finished_job(s, h) ==
  [job_unlink(s, h) EXCEPT !.pending_finished_jobs = @ \cup {h}]

(***************************************************************************)
(* job_finish_and_invalidate.  `cause` is bookkeeping for the log: the     *)
(* dependency set through which a nested call was reached and the job that *)
(* caused it.                                                              *)
(***************************************************************************)
(* a finish that patches no job *)
job_finish_patches_never(result, t) == FALSE

(* the restart patch test, and the test a dependent job must pass to be failed *)
job_finish_patches_restart(result, t) == result = JOB_DONE /\ t = JOB_RESTART

(* a count of failed jobs that leaves out the invalid ones *)
job_finish_counts_failed_only(result) == result = JOB_FAILED

(* a count of failed jobs that takes in the jobs that timed out *)
job_finish_counts_timeout_too(result) ==
  result = JOB_FAILED \/ result = JOB_INVALID \/ result = JOB_TIMEOUT

job_finish_counts_failed(result) == result = JOB_FAILED \/ result = JOB_INVALID

(* a trigger that takes in the jobs that failed *)
job_finish_starts_on_failure_failed_too(result) ==
  result = JOB_TIMEOUT \/ result = JOB_DEPENDENCY \/ result = JOB_FAILED

job_finish_starts_on_failure(result) == result = JOB_TIMEOUT \/ result = JOB_DEPENDENCY

(* the test without the exception for override *)
job_depending_fails_override_too(oj, via) == oj.type \in {JOB_START, JOB_VERIFY_ACTIVE}

job_depending_fails(oj, via) ==
  /\ (via = "required_by_overridable" => ~oj.override)
  /\ oj.type \in {JOB_START, JOB_VERIFY_ACTIVE}

RECURSIVE job_finish_and_invalidate(_, _, _, _, _, _)
RECURSIVE job_fail_depending(_, _, _, _, _)
RECURSIVE job_requeue_neighbours(_, _, _)
RECURSIVE job_finish_propagate(_, _, _, _)
RECURSIVE job_finish_body(_, _, _, _, _, _)

TopLevel == [via |-> "direct", parent |-> NoJob]

(* a loop that finishes the depending jobs with recursive = FALSE *)
job_fail_depending_once(s, n, deps, via, parent) ==
  IF n > NUnits \/ ~Ok(s) THEN s
  ELSE job_fail_depending(
         IF /\ n \in deps
            /\ s.unit_job[n] # NoJob
            /\ job_depending_fails(s.job[s.unit_job[n]], via)
         THEN job_finish_and_invalidate(s, s.unit_job[n], JOB_DEPENDENCY, FALSE, FALSE,
                                        [via |-> via, parent |-> parent])
         ELSE s,
         n + 1, deps, via, parent)

job_fail_depending(s, n, deps, via, parent) ==
  IF n > NUnits \/ ~Ok(s) THEN s
  ELSE job_fail_depending(
         IF /\ n \in deps
            /\ s.unit_job[n] # NoJob
            /\ job_depending_fails(s.job[s.unit_job[n]], via)
         THEN job_finish_and_invalidate(s, s.unit_job[n], JOB_DEPENDENCY, TRUE, FALSE,
                                        [via |-> via, parent |-> parent])
         ELSE s,
         n + 1, deps, via, parent)

job_requeue_neighbours(s, n, deps) ==
  IF n > NUnits \/ ~Ok(s) THEN s
  ELSE job_requeue_neighbours(
         IF n \in deps /\ s.unit_job[n] # NoJob
         THEN job_add_to_run_queue(s, s.unit_job[n]) ELSE s,
         n + 1, deps)

(* the log entry of one call *)
job_finish_entry(s, h, result, recursive, already, cause) ==
  [ job |-> h, id |-> s.job[h].id, unit |-> s.job[h].unit, type |-> s.job[h].type,
    result |-> result, recursive |-> recursive, already |-> already,
    patched |-> job_finish_patches_restart(result, s.job[h].type),
    via |-> cause.via, parent |-> cause.parent,
    saved |-> /\ ~job_finish_patches_restart(result, s.job[h].type)
              /\ s.n_reloading > 0
              /\ s.job[h].reloaded ]

(* a propagation that knows the start and verify-active jobs only *)
job_finish_propagate_start_only(s, h, u, t) ==
  IF t = JOB_START \/ t = JOB_VERIFY_ACTIVE
  THEN job_fail_depending(
         job_fail_depending(
           job_fail_depending(s, 1, Graphs[graph].required_by[u], "required_by", h),
           1, Graphs[graph].bound_by[u], "bound_by", h),
         1, Graphs[graph].required_by_overridable[u], "required_by_overridable", h)
  ELSE s

(* the units the finished job of unit u is required by, bound by or conflicted by *)
job_finish_propagate(s, h, u, t) ==
  IF t = JOB_START \/ t = JOB_VERIFY_ACTIVE
  THEN job_fail_depending(
         job_fail_depending(
           job_fail_depending(s, 1, Graphs[graph].required_by[u], "required_by", h),
           1, Graphs[graph].bound_by[u], "bound_by", h),
         1, Graphs[graph].required_by_overridable[u], "required_by_overridable", h)
  ELSE IF t = JOB_STOP
  THEN job_fail_depending(s, 1, Graphs[graph].conflicted_by[u], "conflicted_by", h)
  ELSE s

(* a "finish" label that tries the jobs of the after set only *)
job_finish_requeue_after_only(s, u) ==
  job_requeue_neighbours(s, 1, Graphs[graph].after[u])

(* a finish that puts no neighbour back on the run queue *)
job_finish_requeue_nobody(s, u) == s

(* the "finish" label: jobs ordered against unit u are tried *)
job_finish_requeue(s, u) ==
  job_requeue_neighbours(job_requeue_neighbours(s, 1, Graphs[graph].after[u]),
                         1, Graphs[graph].before[u])

(* a release that keeps every deserialized job, reload or not *)
job_finish_release_reloaded_always(s, h) ==
  IF ~Ok(s) THEN s
  ELSE IF s.job[h].reloaded
    THEN job_save_pending_finished_job(s, h)
  ELSE job_free(s, h)

(* the uninstalled job is kept for the end of the reload, or freed *)
job_finish_release(s, h) ==
  IF ~Ok(s) THEN s
  ELSE IF s.n_reloading > 0 /\ s.job[h].reloaded
    THEN job_save_pending_finished_job(s, h)
  ELSE job_free(s, h)

job_finish_on_failure(s, u, result) ==
  IF Ok(s) /\ job_finish_starts_on_failure(result)
  THEN [s EXCEPT !.on_failure = Append(@, u)] ELSE s

(* a finish that propagates a failed job no further than one that is done *)
job_finish_body_failed_as_done(s, h, u, t, result, recursive) ==
  IF job_finish_patches_restart(result, t)
  THEN job_finish_requeue(
         job_add_to_run_queue(
           job_set_state(job_change_type(s, h, JOB_START), h, JOB_WAITING), h), u)
  ELSE job_finish_requeue(
         job_finish_on_failure(
           Bind(job_finish_release(
                  job_uninstall(IF job_finish_counts_failed(result)
                                THEN [s EXCEPT !.n_failed_jobs = @ + 1] ELSE s, h), h),
                LAMBDA s4 :
                  IF result # JOB_DONE /\ result # JOB_FAILED /\ recursive
                  THEN job_finish_propagate(s4, h, u, t) ELSE s4),
           u, result),
         u)

job_finish_body(s, h, u, t, result, recursive) ==
  IF job_finish_patches_restart(result, t)
  THEN job_finish_requeue(
         job_add_to_run_queue(
           job_set_state(job_change_type(s, h, JOB_START), h, JOB_WAITING), h), u)
  ELSE job_finish_requeue(
         job_finish_on_failure(
           Bind(job_finish_release(
                  job_uninstall(IF job_finish_counts_failed(result)
                                THEN [s EXCEPT !.n_failed_jobs = @ + 1] ELSE s, h), h),
                LAMBDA s4 :
                  IF result # JOB_DONE /\ recursive
                  THEN job_finish_propagate(s4, h, u, t) ELSE s4),
           u, result),
         u)

job_finish_and_invalidate(s, h, result, recursive, already, cause) ==
  IF ~Ok(s) THEN s
  ELSE IF ~s.job[h].installed THEN Fail(s, "job_finish_and_invalidate: j->installed")
  ELSE IF ~(s.job[h].type < JOB_TYPE_MAX_IN_TRANSACTION)
    THEN Fail(s, "job_finish_and_invalidate: type")
  ELSE job_finish_body(
         job_add_to_dbus_queue(
           [s EXCEPT !.job[h].result = result,
                     !.finished = Append(@, job_finish_entry(s, h, result, recursive,
                                                             already, cause))], h),
         h, s.job[h].unit, s.job[h].type, result, recursive)


(***************************************************************************)
(* Runnability.                                                            *)
(***************************************************************************)
(* job_is_runnable that lets every job run *)
job_is_runnable_whatever(s, h) == TRUE

(* job_is_runnable that makes a job of any type wait for the after set *)
job_is_runnable_after_for_all(s, h) ==
  \/ s.job[h].ignore_order
  \/ s.job[h].type = JOB_NOP
  \/ /\ \A other \in Graphs[graph].after[s.job[h].unit] : s.unit_job[other] = NoJob
     /\ \A other \in Graphs[graph].before[s.job[h].unit] :
          ~(/\ s.unit_job[other] # NoJob
            /\ s.job[s.unit_job[other]].type \in {JOB_STOP, JOB_RESTART})

(* job_is_runnable that looks at the before set only *)
job_is_runnable_before_only(s, h) ==
  \/ s.job[h].ignore_order
  \/ s.job[h].type = JOB_NOP
  \/ \A other \in Graphs[graph].before[s.job[h].unit] :
       ~(/\ s.unit_job[other] # NoJob
         /\ s.job[s.unit_job[other]].type \in {JOB_STOP, JOB_RESTART})

job_is_runnable(s, h) ==
  LET j == s.job[h]
  IN IF j.ignore_order THEN TRUE
     ELSE IF j.type = JOB_NOP THEN TRUE
     ELSE /\ (j.type \in {JOB_START, JOB_VERIFY_ACTIVE, JOB_RELOAD}
                => \A other \in Graphs[graph].after[j.unit] : s.unit_job[other] = NoJob)
          /\ \A other \in Graphs[graph].before[j.unit] :
               ~(/\ s.unit_job[other] # NoJob
                 /\ s.job[s.unit_job[other]].type \in {JOB_STOP, JOB_RESTART})

(***************************************************************************)
(* Installation.  `active` is what unit_active_state() answers when the    *)
(* merged type is collapsed.                                               *)
(***************************************************************************)
(* a merge that takes the type of the other job and drops its flags *)
job_merge_into_installed_type_only(s, h, other, active) ==
  LET j == s.job[h]
      o == s.job[other]
  IN IF ~j.installed THEN Fail(s, "job_merge_into_installed: j->installed")
     ELSE IF j.unit # o.unit THEN Fail(s, "job_merge_into_installed: unit")
     ELSE IF j.type # JOB_NOP /\ ~job_type_lookup_merge_asserts(j.type, o.type)
       THEN Fail(s, "job_type_lookup_merge: range")
     ELSE IF j.type = JOB_NOP /\ o.type # JOB_NOP
       THEN Fail(s, "job_merge_into_installed: other->type == JOB_NOP")
     ELSE [s EXCEPT
             !.job[h].type = IF j.type # JOB_NOP
                             THEN job_type_merge_and_collapse(j.type, o.type, active)
                             ELSE @,
             !.merged_job = o,
             !.collapse_inactive =
                /\ j.type # JOB_NOP
                /\ job_type_lookup_merge(j.type, o.type) >= JOB_TYPE_MAX_IN_TRANSACTION
                /\ UNIT_IS_INACTIVE_OR_DEACTIVATING(active)]

job_merge_into_installed(s, h, other, active) ==
  LET j == s.job[h]
      o == s.job[other]
  IN IF ~j.installed THEN Fail(s, "job_merge_into_installed: j->installed")
     ELSE IF j.unit # o.unit THEN Fail(s, "job_merge_into_installed: unit")
     ELSE IF j.type # JOB_NOP /\ ~job_type_lookup_merge_asserts(j.type, o.type)
       THEN Fail(s, "job_type_lookup_merge: range")
     ELSE IF j.type = JOB_NOP /\ o.type # JOB_NOP
       THEN Fail(s, "job_merge_into_installed: other->type == JOB_NOP")
     ELSE [s EXCEPT
             !.job[h].type = IF j.type # JOB_NOP
                             THEN job_type_merge_and_collapse(j.type, o.type, active)
                             ELSE @,
             !.job[h].override = j.override \/ o.override,
             !.job[h].irreversible = j.irreversible \/ o.irreversible,
             !.job[h].ignore_order = j.ignore_order \/ o.ignore_order,
             !.merged_job = o,
             !.collapse_inactive =
                /\ j.type # JOB_NOP
                /\ job_type_lookup_merge(j.type, o.type) >= JOB_TYPE_MAX_IN_TRANSACTION
                /\ UNIT_IS_INACTIVE_OR_DEACTIVATING(active)]

(* job_install cancelling with propagation *)
job_install_cancel_propagates == TRUE

(* the `recursive` argument job_install cancels a conflicting occupant with *)
job_install_cancel_recursive == FALSE

(* a test that lets every request merge without re-running *)
job_install_merges_quietly_always(uj, j) == TRUE

(* the test of job_install for merging without re-running *)
job_install_merges_quietly(uj, j) ==
  \/ uj.state = JOB_WAITING
  \/ (job_type_allows_late_merge(j.type) /\ job_type_is_superset(uj.type, j.type))

(* a placement that leaves n_installed_jobs alone *)
job_install_place_uncounted(s, h) ==
  LET j == s.job[h]
  IN [s EXCEPT !.nop_job[j.unit] = IF j.type = JOB_NOP THEN h ELSE @,
               !.unit_job[j.unit] = IF j.type = JOB_NOP THEN @ ELSE h,
               !.job[h].installed = TRUE,
               !.ret = h,
               !.displaced = IF j.type = JOB_NOP THEN s.nop_job[j.unit]
                             ELSE s.unit_job[j.unit],
               !.outcome = IF s.outcome = "none" THEN "installed" ELSE @]

job_install_place(s, h) ==
  LET j == s.job[h]
  IN [s EXCEPT !.nop_job[j.unit] = IF j.type = JOB_NOP THEN h ELSE @,
               !.unit_job[j.unit] = IF j.type = JOB_NOP THEN @ ELSE h,
               !.job[h].installed = TRUE,
               !.n_installed_jobs = @ + 1,
               !.ret = h,
               !.displaced = IF j.type = JOB_NOP THEN s.nop_job[j.unit]
                             ELSE s.unit_job[j.unit],
               !.outcome = IF s.outcome = "none" THEN "installed" ELSE @]

job_install(s, h, active) ==
  LET j == s.job[h]
      uj == IF j.type = JOB_NOP THEN s.nop_job[j.unit] ELSE s.unit_job[j.unit]
  IN IF j.installed THEN Fail(s, "job_install: !j->installed")
     ELSE IF ~(j.type < JOB_TYPE_MAX_IN_TRANSACTION) THEN Fail(s, "job_install: type")
     ELSE IF j.state # JOB_WAITING THEN Fail(s, "job_install: state")
     ELSE IF uj = NoJob THEN job_install_place(s, h)
     ELSE IF ~job_type_lookup_merge_asserts(s.job[uj].type, j.type)
       THEN Fail(s, "job_type_lookup_merge: range")
     ELSE IF job_type_is_conflicting(s.job[uj].type, j.type)
       THEN Bind(job_finish_and_invalidate(s, uj, JOB_CANCELED,
                                           job_install_cancel_recursive, FALSE, TopLevel),
                 LAMBDA s1 :
                   IF Ok(s1) THEN job_install_place([s1 EXCEPT !.outcome = "replaced"], h)
                   ELSE s1)
     ELSE IF job_install_merges_quietly(s.job[uj], j)
       THEN [job_merge_into_installed(s, uj, h, active)
               EXCEPT !.ret = uj, !.outcome = "merged"]
     ELSE [job_set_state(job_merge_into_installed(s, uj, h, active), uj, JOB_WAITING)
             EXCEPT !.ret = uj, !.outcome = "rerun"]

(* an installation of a deserialized job that does not look at the slot *)
job_install_deserialized_over_occupant(s, h) ==
  LET j == s.job[h]
  IN IF j.installed THEN Fail(s, "job_install_deserialized: !j->installed")
     ELSE IF j.type < 0 \/ j.type >= JOB_TYPE_MAX_IN_TRANSACTION
       THEN [s EXCEPT !.ret = -EINVAL]
     ELSE [s EXCEPT !.nop_job[j.unit] = IF j.type = JOB_NOP THEN h ELSE @,
                    !.unit_job[j.unit] = IF j.type = JOB_NOP THEN @ ELSE h,
                    !.job[h].installed = TRUE,
                    !.job[h].reloaded = TRUE,
                    !.n_running_jobs = IF j.state = JOB_RUNNING THEN @ + 1 ELSE @,
                    !.ret = 0]

(* an installation of a deserialized job that leaves the counter alone *)
job_install_deserialized_uncounted(s, h) ==
  LET j == s.job[h]
      pj == IF j.type = JOB_NOP THEN s.nop_job[j.unit] ELSE s.unit_job[j.unit]
  IN IF j.installed THEN Fail(s, "job_install_deserialized: !j->installed")
     ELSE IF j.type < 0 \/ j.type >= JOB_TYPE_MAX_IN_TRANSACTION
       THEN [s EXCEPT !.ret = -EINVAL]
     ELSE IF pj # NoJob THEN [s EXCEPT !.ret = -EEXIST]
     ELSE [s EXCEPT !.nop_job[j.unit] = IF j.type = JOB_NOP THEN h ELSE @,
                    !.unit_job[j.unit] = IF j.type = JOB_NOP THEN @ ELSE h,
                    !.job[h].installed = TRUE,
                    !.job[h].reloaded = TRUE,
                    !.ret = 0]

job_install_deserialized(s, h) ==
  LET j == s.job[h]
      pj == IF j.type = JOB_NOP THEN s.nop_job[j.unit] ELSE s.unit_job[j.unit]
  IN IF j.installed THEN Fail(s, "job_install_deserialized: !j->installed")
     ELSE IF j.type < 0 \/ j.type >= JOB_TYPE_MAX_IN_TRANSACTION
       THEN [s EXCEPT !.ret = -EINVAL]
     ELSE IF pj # NoJob THEN [s EXCEPT !.ret = -EEXIST]
     ELSE [s EXCEPT !.nop_job[j.unit] = IF j.type = JOB_NOP THEN h ELSE @,
                    !.unit_job[j.unit] = IF j.type = JOB_NOP THEN @ ELSE h,
                    !.job[h].installed = TRUE,
                    !.job[h].reloaded = TRUE,
                    !.n_running_jobs = IF j.state = JOB_RUNNING THEN @ + 1 ELSE @,
                    !.ret = 0]

(***************************************************************************)
(* Timers.  `now` is what now(CLOCK_MONOTONIC) answers.                    *)
(***************************************************************************)
(* a timer armed whatever the unit's job_timeout is *)
job_start_timer_always(s, h, now) ==
  IF s.job[h].timer_event_source THEN s
  ELSE [s EXCEPT !.job[h].begin_usec = now,
                 !.job[h].timer_event_source = TRUE]

job_start_timer(s, h, now) ==
  IF s.job[h].timer_event_source THEN s
  ELSE [s EXCEPT !.job[h].begin_usec = now,
                 !.job[h].timer_event_source = Graphs[graph].job_timeout[s.job[h].unit] > 0]

(* the emergency action as the log keeps it: whether the job was still
   installed, and how many calls of job_finish_and_invalidate had been made *)
emergency_action(s, u, h) ==
  [s EXCEPT !.emergency =
     Append(@, [unit |-> u, job |-> h, job_installed |-> s.job[h].installed,
                after_finishes |-> Len(s.finished)])]

(* a timer callback that executes the action first *)
job_dispatch_timer_action_first(s, h) ==
  job_finish_and_invalidate(emergency_action(s, s.job[h].unit, h), h, JOB_TIMEOUT,
                            TRUE, FALSE, TopLevel)

job_dispatch_timer(s, h) ==
  Bind(job_finish_and_invalidate(s, h, JOB_TIMEOUT, TRUE, FALSE, TopLevel), LAMBDA s1 :
    IF ~Ok(s1) THEN s1 ELSE emergency_action(s1, s.job[h].unit, h))


(***************************************************************************)
(* job_run_and_invalidate.  The call of a unit primitive is a point where  *)
(* the unit's code runs and may re-enter the engine, so the function is    *)
(* modelled in two parts: up to the call (job_run_and_invalidate), and     *)
(* from the primitive's return (job_run_and_invalidate_return).  For       *)
(* verify-active and nop no primitive is called and both parts run in one  *)
(* step.                                                                   *)
(***************************************************************************)
PrimitiveReturns ==
  {0, 1, -EALREADY, -EBADR, -ENOEXEC, -EPROTO, -ENOTSUP, -EAGAIN, -EIO}

(* the switch on j->type: which primitive is called *)
job_run_primitive(type) ==
  CASE type = JOB_START -> "unit_start"
    [] type = JOB_STOP \/ type = JOB_RESTART -> "unit_stop"
    [] type = JOB_RELOAD -> "unit_reload"
    [] OTHER -> "none"

(* a switch that hands every return value on as it is *)
job_run_switch_keeps_result(type, ret) == ret

(* r as the switch leaves it, given what the primitive returned *)
job_run_switch_result(type, ret) ==
  IF type \in {JOB_START, JOB_STOP, JOB_RESTART} /\ ret = -EBADR THEN 0 ELSE ret

(* a verify-active job that never waits for a unit that is activating *)
job_run_immediate_result_never_waits(type, active) ==
  IF type = JOB_VERIFY_ACTIVE
  THEN IF UNIT_IS_ACTIVE_OR_RELOADING(active) THEN -EALREADY
       ELSE -EBADR
  ELSE -EALREADY

(* r for the types that call no primitive *)
job_run_immediate_result(type, active) ==
  IF type = JOB_VERIFY_ACTIVE
  THEN IF UNIT_IS_ACTIVE_OR_RELOADING(active) THEN -EALREADY
       ELSE IF active = UNIT_ACTIVATING THEN -EAGAIN
       ELSE -EBADR
  ELSE -EALREADY

(* a mapping without the case for ENOTSUP *)
job_run_result_without_unsupported(r) ==
  IF r = -EALREADY THEN JOB_DONE
  ELSE IF r = -EBADR THEN JOB_SKIPPED
  ELSE IF r = -ENOEXEC THEN JOB_INVALID
  ELSE IF r = -EPROTO THEN JOB_ASSERT
  ELSE IF r = -EAGAIN THEN JOB_RESULT_INVALID
  ELSE IF r < 0 THEN JOB_FAILED
  ELSE JOB_RESULT_INVALID

(* the result a return code finishes the job with; -1 when it does not finish *)
job_run_result_of(r) ==
  IF r = -EALREADY THEN JOB_DONE
  ELSE IF r = -EBADR THEN JOB_SKIPPED
  ELSE IF r = -ENOEXEC THEN JOB_INVALID
  ELSE IF r = -EPROTO THEN JOB_ASSERT
  ELSE IF r = -ENOTSUP THEN JOB_UNSUPPORTED
  ELSE IF r = -EAGAIN THEN JOB_RESULT_INVALID
  ELSE IF r < 0 THEN JOB_FAILED
  ELSE JOB_RESULT_INVALID

(* a return that books the failure of a job that is gone *)
job_run_and_invalidate_return_counts_gone(s, id, r) ==
  LET h == manager_get_job(s, id)
  IN IF h = NoJob
       THEN [s EXCEPT !.ret = r,
                      !.n_failed_jobs = IF job_run_result_of(r) = JOB_FAILED
                                        THEN @ + 1 ELSE @]
     ELSE IF job_run_result_of(r) # JOB_RESULT_INVALID
       THEN [job_finish_and_invalidate(s, h, job_run_result_of(r), TRUE,
                                       r = -EALREADY, TopLevel)
               EXCEPT !.ret = 0]
     ELSE IF r = -EAGAIN THEN [job_set_state(s, h, JOB_WAITING) EXCEPT !.ret = r]
     ELSE [s EXCEPT !.ret = r]

job_run_and_invalidate_return(s, id, r) ==
  LET h == manager_get_job(s, id)
  IN IF h = NoJob THEN [s EXCEPT !.ret = r]
     ELSE IF job_run_result_of(r) # JOB_RESULT_INVALID
       THEN [job_finish_and_invalidate(s, h, job_run_result_of(r), TRUE,
                                       r = -EALREADY, TopLevel)
               EXCEPT !.ret = 0]
     ELSE IF r = -EAGAIN THEN [job_set_state(s, h, JOB_WAITING) EXCEPT !.ret = r]
     ELSE [s EXCEPT !.ret = r]

(* from the state change to the call of the primitive *)
job_run_call(s, h, j, active) ==
  IF job_run_primitive(j.type) # "none"
  THEN [s EXCEPT !.call = [active |-> TRUE, id |-> j.id, type |-> j.type,
                           unit |-> j.unit, primitive |-> job_run_primitive(j.type)],
                 !.ret = 0]
  ELSE job_run_and_invalidate_return(
         [s EXCEPT !.active = IF j.type = JOB_VERIFY_ACTIVE THEN active ELSE @],
         j.id, job_run_immediate_result(j.type, active))

(* a dispatch that does not look at the state of the job *)
job_run_dequeued_whatever_state(s, h, j, active) ==
  IF ~job_is_runnable(s, h) THEN [s EXCEPT !.ret = -EAGAIN]
  ELSE job_run_call(job_add_to_dbus_queue(job_set_state(s, h, JOB_RUNNING), h),
                    h, j, active)

(* from the removal from the run queue on *)
job_run_dequeued(s, h, j, active) ==
  IF j.state # JOB_WAITING THEN [s EXCEPT !.ret = 0]
  ELSE IF ~job_is_runnable(s, h) THEN [s EXCEPT !.ret = -EAGAIN]
  ELSE job_run_call(job_add_to_dbus_queue(job_set_state(s, h, JOB_RUNNING), h),
                    h, j, active)

job_run_and_invalidate(s, h, active) ==
  IF ~s.job[h].installed THEN Fail(s, "job_run_and_invalidate: j->installed")
  ELSE IF ~(s.job[h].type < JOB_TYPE_MAX_IN_TRANSACTION)
    THEN Fail(s, "job_run_and_invalidate: type")
  ELSE IF ~s.job[h].in_run_queue
    THEN Fail(s, "job_run_and_invalidate: j->in_run_queue")
  ELSE job_run_dequeued([s EXCEPT !.run_queue = RemoveFromSeq(@, h),
                                  !.job[h].in_run_queue = FALSE],
                        h, s.job[h], active)


(***************************************************************************)
(* String tables and the serialization stream.  A stream is a sequence of  *)
(* lines [k |-> key, v |-> value]; the line with an empty key is the empty *)
(* line that ends a job.  NULL printed with %s reads "(null)".             *)
(***************************************************************************)
NullString == "(null)"

job_state_table == << "waiting", "running" >>

job_type_table ==
  << "start", "verify-active", "stop", "reload", "restart", "nop",
     "try-restart", "reload-or-start", NullString >>

job_result_table ==
  << "done", "canceled", "timeout", "failed", "dependency", "skipped",
     "invalid", "assert", "unsupported" >>

JOB_MODE_MAX == 7

job_mode_table ==
  << "fail", "replace", "replace-irreversibly", "isolate", "flush",
     "ignore-dependencies", "ignore-requirements" >>

string_table_to_string(table, i) ==
  IF i < 0 \/ i >= Len(table) THEN NullString ELSE table[i + 1]

string_table_from_string(table, str) ==
  IF \E i \in 1..Len(table) : table[i] # NullString /\ table[i] = str
  THEN (CHOOSE i \in 1..Len(table) : table[i] # NullString /\ table[i] = str) - 1
  ELSE -1

job_type_to_string(i) == string_table_to_string(job_type_table, i)
job_type_from_string(str) == string_table_from_string(job_type_table, str)
job_state_to_string(i) == string_table_to_string(job_state_table, i)
job_state_from_string(str) == string_table_from_string(job_state_table, str)
job_result_to_string(i) == string_table_to_string(job_result_table, i)
job_result_from_string(str) == string_table_from_string(job_result_table, str)
job_mode_to_string(i) == string_table_to_string(job_mode_table, i)
job_mode_from_string(str) == string_table_from_string(job_mode_table, str)

yes_no(b) == IF b THEN "yes" ELSE "no"

parse_boolean(v) ==
  IF v \in {"1", "yes", "y", "true", "t", "on"} THEN 1
  ELSE IF v \in {"0", "no", "n", "false", "f", "off"} THEN 0
  ELSE -EINVAL

(* decimal formatting of an unsigned number, and its parse (-1: no number) *)
DigitChars == << "0", "1", "2", "3", "4", "5", "6", "7", "8", "9" >>
MaxParse == 30

RECURSIVE FormatUnsigned(_)
FormatUnsigned(n) ==
  IF n < 10 THEN DigitChars[n + 1]
  ELSE FormatUnsigned(n \div 10) \o DigitChars[(n % 10) + 1]

ParseUnsigned(v) ==
  IF \E n \in 0..MaxParse : FormatUnsigned(n) = v
  THEN CHOOSE n \in 0..MaxParse : FormatUnsigned(n) = v
  ELSE -1

Line(k, v) == [k |-> k, v |-> v]
EndMarker == Line("", "")

RECURSIVE SubscribedLines(_)
SubscribedLines(clients) ==
  IF clients = << >> THEN << >>
  ELSE << Line("subscribed", Head(clients)) >> \o SubscribedLines(Tail(clients))

(* a stream without the job-ignore-order line *)
job_serialize_without_ignore_order(j, clients) ==
  << Line("job-id", FormatUnsigned(j.id)),
     Line("job-type", job_type_to_string(j.type)),
     Line("job-state", job_state_to_string(j.state)),
     Line("job-override", yes_no(j.override)),
     Line("job-irreversible", yes_no(j.irreversible)),
     Line("job-sent-dbus-new-signal", yes_no(j.sent_dbus_new_signal)) >>
  \o (IF j.begin_usec > 0 THEN << Line("job-begin", FormatUnsigned(j.begin_usec)) >>
      ELSE << >>)
  \o SubscribedLines(clients)
  \o << EndMarker >>

job_serialize(j, clients) ==
  << Line("job-id", FormatUnsigned(j.id)),
     Line("job-type", job_type_to_string(j.type)),
     Line("job-state", job_state_to_string(j.state)),
     Line("job-override", yes_no(j.override)),
     Line("job-irreversible", yes_no(j.irreversible)),
     Line("job-sent-dbus-new-signal", yes_no(j.sent_dbus_new_signal)),
     Line("job-ignore-order", yes_no(j.ignore_order)) >>
  \o (IF j.begin_usec > 0 THEN << Line("job-begin", FormatUnsigned(j.begin_usec)) >>
      ELSE << >>)
  \o SubscribedLines(clients)
  \o << EndMarker >>

(* one line of job_deserialize applied to the Job object j *)
job_deserialize_line(j, l) ==
  CASE l.k = "job-id" ->
         IF ParseUnsigned(l.v) < 0 THEN j ELSE [j EXCEPT !.id = ParseUnsigned(l.v)]
    [] l.k = "job-type" ->
         LET ty == job_type_from_string(l.v)
         IN IF ty < 0 \/ ty >= JOB_TYPE_MAX_IN_TRANSACTION THEN j
            ELSE [j EXCEPT !.type = ty]
    [] l.k = "job-state" ->
         LET st == job_state_from_string(l.v)
         IN IF st < 0 THEN j ELSE [j EXCEPT !.state = st]
    [] l.k = "job-override" ->
         IF parse_boolean(l.v) < 0 THEN j
         ELSE [j EXCEPT !.override = @ \/ parse_boolean(l.v) = 1]
    [] l.k = "job-irreversible" ->
         IF parse_boolean(l.v) < 0 THEN j
         ELSE [j EXCEPT !.irreversible = @ \/ parse_boolean(l.v) = 1]
    [] l.k = "job-sent-dbus-new-signal" ->
         IF parse_boolean(l.v) < 0 THEN j
         ELSE [j EXCEPT !.sent_dbus_new_signal = @ \/ parse_boolean(l.v) = 1]
    [] l.k = "job-ignore-order" ->
         IF parse_boolean(l.v) < 0 THEN j
         ELSE [j EXCEPT !.ignore_order = @ \/ parse_boolean(l.v) = 1]
    [] l.k = "job-begin" ->
         IF ParseUnsigned(l.v) < 0 THEN j
         ELSE [j EXCEPT !.begin_usec = ParseUnsigned(l.v)]
    [] l.k = "subscribed" ->
         [j EXCEPT !.deserialized_clients = Append(@, l.v)]
    [] OTHER -> j

RECURSIVE job_deserialize(_, _)
job_deserialize(j, f) ==
  IF f = << >> THEN j
  ELSE IF Head(f).k = "" THEN j
  ELSE job_deserialize(job_deserialize_line(j, Head(f)), Tail(f))

job_coldplug(s, h) ==
  Bind(IF s.job[h].state = JOB_WAITING THEN job_add_to_run_queue(s, h) ELSE s,
       LAMBDA s1 :
         IF ~Ok(s1) THEN s1
         ELSE IF s.job[h].begin_usec = 0 \/ Graphs[graph].job_timeout[s.job[h].unit] = 0
           THEN s1
         ELSE [s1 EXCEPT !.job[h].timer_event_source = TRUE])


(***************************************************************************)
(* The callers of job.c: the transaction that installs a requested job,    *)
(* the run queue dispatcher, the unit reporting completion, the bus method *)
(* that cancels a job, the notification flush and live-reload.             *)
(***************************************************************************)
NoFlags == [override |-> FALSE, irreversible |-> FALSE, ignore_order |-> FALSE]
FlagSets ==
  { NoFlags,
    [ override |-> Graphs[graph].flag = "override",
      irreversible |-> Graphs[graph].flag = "irreversible",
      ignore_order |-> Graphs[graph].flag = "ignore_order" ] }

MaxClock == 1
Clock == 1..MaxClock

(* the occupant of the slot a job of this type would go to *)
SlotOf(s, unit, type) == IF type = JOB_NOP THEN s.nop_job[unit] ELSE s.unit_job[unit]

(* a transaction check that does not look at the irreversible flag *)
transaction_is_destructive_never(s, unit, type) == FALSE

(* a conflicting request against an irreversible occupant is refused *)
transaction_is_destructive(s, unit, type) ==
  LET uj == SlotOf(s, unit, type)
  IN /\ uj # NoJob
     /\ s.job[uj].irreversible
     /\ job_type_lookup_merge_asserts(s.job[uj].type, type)
     /\ job_type_is_conflicting(s.job[uj].type, type)

(* the new job j is put in the hashmap and installed; a merged j is freed *)
manager_add_job_install(s, j, flags, active) ==
  Bind(job_install([s EXCEPT !.job[j].override = flags.override,
                             !.job[j].irreversible = flags.irreversible,
                             !.job[j].ignore_order = flags.ignore_order,
                             !.jobs[s.job[j].id] = j], j, active),
       LAMBDA s3 :
         IF ~Ok(s3) THEN s3
         ELSE IF s3.ret # j
           THEN [job_free([s3 EXCEPT !.jobs[s3.job[j].id] = NoJob], j)
                   EXCEPT !.ret = s3.ret]
         ELSE s3)

(* the installed job is queued to run and to be announced, its timer started *)
manager_add_job_queue(s, now) ==
  IF ~Ok(s) THEN s
  ELSE [job_start_timer(job_add_to_dbus_queue(job_add_to_run_queue(s, s.ret), s.ret),
                        s.ret, now)
          EXCEPT !.ret = s.ret]

manager_add_job(s, unit, reqtype, flags, active, now) ==
  IF ~(job_type_collapse(reqtype, active) < JOB_TYPE_MAX_IN_TRANSACTION)
  THEN [s EXCEPT !.ret = -EINVAL, !.outcome = "invalid"]
  ELSE IF transaction_is_destructive(s, unit, job_type_collapse(reqtype, active))
  THEN [s EXCEPT !.ret = -EEXIST, !.outcome = "destructive"]
  ELSE manager_add_job_queue(
         Bind(job_new(s, unit, job_type_collapse(reqtype, active)), LAMBDA s1 :
           manager_add_job_install(s1, s1.ret, flags, active)),
         now)

manager_dispatch_dbus_queue(s) ==
  [s EXCEPT !.dbus_job_queue = {},
            !.job = [h \in Handles |->
                       IF h \in s.dbus_job_queue
                       THEN [s.job[h] EXCEPT !.in_dbus_queue = FALSE,
                                             !.sent_dbus_new_signal = TRUE]
                       ELSE s.job[h]]]

(* the jobs kept in pending_finished_jobs are announced and freed *)
RECURSIVE manager_flush_finished_jobs(_, _)
manager_flush_finished_jobs(s, h) ==
  IF h > MaxJobs \/ ~Ok(s) THEN s
  ELSE manager_flush_finished_jobs(
         IF h \in s.pending_finished_jobs
         THEN job_free([s EXCEPT !.pending_finished_jobs = @ \ {h},
                                 !.removed = Append(@, h)], h)
         ELSE s, h + 1)

unit_deserialize_job_install(s, j, id) ==
  IF s.jobs[id] # NoJob
  THEN [job_free(s, j) EXCEPT !.ret = -EEXIST, !.outcome = "hashmap"]
  ELSE Bind(job_install_deserialized([s EXCEPT !.jobs[id] = j], j), LAMBDA s3 :
         IF s3.ret < 0
         THEN [job_free([s3 EXCEPT !.jobs[id] = NoJob], j)
                 EXCEPT !.ret = s3.ret, !.outcome = "refused"]
         ELSE [s3 EXCEPT !.outcome = "reinstalled"])

unit_deserialize_job(s, unit, f) ==
  Bind(job_new_raw(s, unit), LAMBDA s1 :
    Bind([s1 EXCEPT !.job[s1.ret] = job_deserialize(s1.job[s1.ret], f),
                    !.deserialized = job_deserialize(s1.job[s1.ret], f)], LAMBDA s2 :
      unit_deserialize_job_install(s2, s1.ret, s2.job[s1.ret].id)))


(***************************************************************************)
(* The state machine.                                                      *)
(***************************************************************************)
Init ==
  /\ graph \in 1..Len(Graphs)
  /\ job = [h \in Handles |-> ZeroJob]
  /\ n_alloc = 0
  /\ unit_job = [u \in Units |-> NoJob]
  /\ nop_job = [u \in Units |-> NoJob]
  /\ jobs = [i \in Ids |-> NoJob]
  /\ run_queue = << >>
  /\ dbus_job_queue = {}
  /\ n_installed_jobs = 0
  /\ n_running_jobs = 0
  /\ n_failed_jobs = 0
  /\ n_reloading = 0
  /\ pending_finished_jobs = {}
  /\ current_job_id = 1
  /\ call = NoCall
  /\ dispatching = FALSE
  /\ coldplugged = {}
  /\ assert_failed = "none"
  /\ finished_failed = 0
  /\ last = NoLast

LastOf(s, op, unit, h, arg) ==
  [ op |-> op, unit |-> unit, job |-> h, arg |-> arg, ret |-> s.ret,
    finished |-> s.finished, on_failure |-> s.on_failure,
    emergency |-> s.emergency, removed |-> s.removed, displaced |-> s.displaced,
    collapse_inactive |-> s.collapse_inactive, merged_job |-> s.merged_job,
    deserialized |-> s.deserialized, active |-> s.active,
    outcome |-> IF Ok(s) THEN s.outcome ELSE "abort" ]

(* the calls of job_finish_and_invalidate the handler made with result failed
   or invalid *)
FinishedFailed(s) ==
  Cardinality({k \in 1..Len(s.finished) :
                 s.finished[k].result \in {JOB_FAILED, JOB_INVALID}})

Commit(s, op, unit, h, arg) ==
  /\ last' = LastOf(s, op, unit, h, arg)
  /\ assert_failed' = s.assert_failed
  /\ UNCHANGED graph
  /\ IF Ok(s)
     THEN /\ job' = s.job
          /\ n_alloc' = s.n_alloc
          /\ unit_job' = s.unit_job
          /\ nop_job' = s.nop_job
          /\ jobs' = s.jobs
          /\ run_queue' = s.run_queue
          /\ dbus_job_queue' = s.dbus_job_queue
          /\ n_installed_jobs' = s.n_installed_jobs
          /\ n_running_jobs' = s.n_running_jobs
          /\ n_failed_jobs' = s.n_failed_jobs
          /\ n_reloading' = s.n_reloading
          /\ pending_finished_jobs' = s.pending_finished_jobs
          /\ current_job_id' = s.current_job_id
          /\ call' = s.call
          /\ finished_failed' = finished_failed + FinishedFailed(s)
     ELSE UNCHANGED << job, n_alloc, unit_job, nop_job, jobs, run_queue,
                       dbus_job_queue, n_installed_jobs, n_running_jobs,
                       n_failed_jobs, n_reloading, pending_finished_jobs,
                       current_job_id, call, finished_failed >>

Alive == assert_failed = "none"

Installed == {h \in Handles : job[h].installed}

(* the types a client may request: those job_type_collapse brings into a slot *)
RequestTypes ==
  {JOB_START, JOB_VERIFY_ACTIVE, JOB_STOP, JOB_RELOAD, JOB_RESTART, JOB_NOP,
   JOB_TRY_RESTART, JOB_RELOAD_OR_START, JOB_TRY_RELOAD}

(* The event loop flushes the notification queue before it waits for the next
   event, so a timer, a bus request or a reload finds the queue empty.  A request
   made by unit code from inside a primitive is not subject to that. *)
Idle == ~call.active /\ ~dispatching /\ dbus_job_queue = {}

AddJob(u, t, fl, active, now) ==
  /\ Alive
  /\ n_reloading = 0
  /\ n_alloc < MaxJobs
  /\ current_job_id <= MaxJobs
  /\ call.active \/ Idle
  /\ Commit(manager_add_job(Cur, u, t, fl, active, now), "manager_add_job", u, NoJob,
            job_type_collapse(t, active))
  /\ UNCHANGED << dispatching, coldplugged >>

(* manager_dispatch_run_queue: while the queue is not empty, run its head.  The
   loop is entered from the event loop and left when the queue is empty. *)
DispatchRunQueue(active) ==
  /\ Alive
  /\ n_reloading = 0
  /\ ~call.active
  /\ dispatching \/ dbus_job_queue = {}
  /\ run_queue # << >>
  /\ \E s \in {job_run_and_invalidate(Cur, Head(run_queue), active)} :
       /\ Commit(s, "job_run_and_invalidate", job[Head(run_queue)].unit, Head(run_queue),
                 job[Head(run_queue)].type)
       /\ dispatching' = (~Ok(s) \/ s.call.active \/ s.run_queue # << >>)
  /\ UNCHANGED coldplugged

PrimitiveReturn(r) ==
  /\ Alive
  /\ call.active
  /\ \E s \in {job_run_and_invalidate_return([Cur EXCEPT !.call = NoCall], call.id,
                                              job_run_switch_result(call.type, r))} :
       /\ Commit(s, "primitive_return", call.unit, jobs[call.id], r)
       /\ dispatching' = (~Ok(s) \/ s.run_queue # << >>)
  /\ UNCHANGED coldplugged

UnitNotify(u, result) ==
  /\ Alive
  /\ call.active \/ Idle \/ n_reloading > 0
  /\ unit_job[u] # NoJob
  /\ job[unit_job[u]].state = JOB_RUNNING
  /\ Commit(job_finish_and_invalidate(Cur, unit_job[u], result, TRUE, FALSE, TopLevel),
            "unit_notify", u, unit_job[u], result)
  /\ UNCHANGED << dispatching, coldplugged >>

CancelJob(h) ==
  /\ Alive
  /\ n_reloading = 0
  /\ Idle
  /\ job[h].installed
  /\ Commit(job_finish_and_invalidate(Cur, h, JOB_CANCELED, TRUE, FALSE, TopLevel),
            "cancel", job[h].unit, h, JOB_CANCELED)
  /\ UNCHANGED << dispatching, coldplugged >>

TimerFires(h) ==
  /\ Alive
  /\ n_reloading = 0
  /\ Idle
  /\ job[h].timer_event_source
  /\ Commit(job_dispatch_timer(Cur, h), "job_dispatch_timer", job[h].unit, h, JOB_TIMEOUT)
  /\ UNCHANGED << dispatching, coldplugged >>

DispatchDbusQueue ==
  /\ Alive
  /\ n_reloading = 0
  /\ ~call.active
  /\ ~dispatching
  /\ dbus_job_queue # {}
  /\ Commit(manager_dispatch_dbus_queue(Cur), "manager_dispatch_dbus_queue", 0, NoJob, 0)
  /\ UNCHANGED << dispatching, coldplugged >>

(* the serialized jobs a stream may hold *)
SerializedJobs ==
  { [ZeroJob EXCEPT !.id = i, !.type = ty, !.state = st, !.override = fl.override,
                    !.irreversible = fl.irreversible, !.ignore_order = fl.ignore_order,
                    !.begin_usec = b] :
      i \in 1..(current_job_id - 1),
      ty \in {JOB_START, JOB_STOP, JOB_RESTART, JOB_NOP, JOB_TRY_RESTART},
      st \in {JOB_WAITING, JOB_RUNNING}, fl \in {NoFlags}, b \in {0} \cup Clock }

DeserializeJob(u, sj) ==
  /\ Alive
  /\ n_reloading > 0
  /\ coldplugged = {}
  /\ n_alloc < MaxRequests
  /\ Commit(unit_deserialize_job(Cur, u, job_serialize(sj, << >>)),
            "unit_deserialize", u, NoJob, sj.type)
  /\ UNCHANGED << dispatching, coldplugged >>

ColdplugJob(h) ==
  /\ Alive
  /\ n_reloading > 0
  /\ job[h].installed
  /\ h \notin coldplugged
  /\ Commit(job_coldplug(Cur, h), "job_coldplug", job[h].unit, h, 0)
  /\ coldplugged' = coldplugged \cup {h}
  /\ UNCHANGED dispatching

ReloadEnd ==
  /\ Alive
  /\ n_reloading > 0
  /\ Installed \subseteq coldplugged
  /\ Commit(manager_flush_finished_jobs([Cur EXCEPT !.n_reloading = @ - 1], 1),
            "manager_reload_end", 0, NoJob, 0)
  /\ coldplugged' = {}
  /\ UNCHANGED dispatching

(* what happens without a new request *)
Engine ==
  \/ \E active \in UnitActiveStates : DispatchRunQueue(active)
  \/ \E r \in PrimitiveReturns : PrimitiveReturn(r)
  \/ \E u \in Units, result \in {JOB_DONE, JOB_FAILED} : UnitNotify(u, result)
  \/ \E h \in Handles : CancelJob(h)
  \/ \E h \in Handles : TimerFires(h)
  \/ DispatchDbusQueue

(* MaxRequests requests of every type *)
Next ==
  \/ /\ n_alloc < MaxRequests
     /\ current_job_id <= MaxRequests
     /\ \E u \in Units, t \in RequestTypes, fl \in FlagSets,
           active \in UnitActiveStates, now \in Clock : AddJob(u, t, fl, active, now)
  \/ \E active \in UnitActiveStates : DispatchRunQueue(active)
  \/ \E r \in PrimitiveReturns : PrimitiveReturn(r)
  \/ \E u \in Units, result \in {JOB_DONE, JOB_FAILED} : UnitNotify(u, result)
  \/ \E h \in Handles : CancelJob(h)
  \/ \E h \in Handles : TimerFires(h)
  \/ DispatchDbusQueue

Spec == Init /\ [][Next]_vars

(* The manager that comes up in a live-reload: no job yet, the id counter read
   back from the stream, the units' jobs about to be deserialized. *)
InitReload ==
  /\ graph = 1
  /\ job = [h \in Handles |-> ZeroJob]
  /\ n_alloc = 0
  /\ unit_job = [u \in Units |-> NoJob]
  /\ nop_job = [u \in Units |-> NoJob]
  /\ jobs = [i \in Ids |-> NoJob]
  /\ run_queue = << >>
  /\ dbus_job_queue = {}
  /\ n_installed_jobs = 0
  /\ n_running_jobs = 0
  /\ n_failed_jobs = 0
  /\ n_reloading = 1
  /\ pending_finished_jobs = {}
  /\ current_job_id \in {MaxRequests, MaxRequests + 1}
  /\ call = NoCall
  /\ dispatching = FALSE
  /\ coldplugged = {}
  /\ assert_failed = "none"
  /\ finished_failed = 0
  /\ last = NoLast

(* MaxJobs requests to start, to verify or to stop a unit *)
NextDependents ==
  \/ \E u \in Units, t \in {JOB_START, JOB_VERIFY_ACTIVE, JOB_STOP}, fl \in FlagSets,
        now \in Clock : AddJob(u, t, fl, UNIT_INACTIVE, now)
  \/ Engine

(* the configuration with an edge of every requirement kind *)
InitDependents == Init /\ graph = Len(Graphs)

SpecDependents == InitDependents /\ [][NextDependents]_vars

(* MaxJobs requests to start or to verify a unit of the requirement chain *)
NextCascade ==
  \/ \E u \in Units, t \in {JOB_START, JOB_VERIFY_ACTIVE}, now \in Clock :
        AddJob(u, t, NoFlags, UNIT_INACTIVE, now)
  \/ Engine

InitCascade == Init /\ graph = 1

SpecCascade == InitCascade /\ [][NextCascade]_vars

NextReload ==
  \/ Next
  \/ \E u \in Units, sj \in SerializedJobs : DeserializeJob(u, sj)
  \/ \E h \in Handles : ColdplugJob(h)
  \/ ReloadEnd

SpecReload == InitReload /\ [][NextReload]_vars

(***************************************************************************)
(* The pure functions of job.c, each applied once to every input of its    *)
(* domain.  `last` keeps the arguments and what the function returned.     *)
(***************************************************************************)
(* merge and collapse, -1 when the types cannot be merged or one of them is
   itself the result of a failed merge *)
MergedType(a, b, active) ==
  IF a < 0 \/ b < 0 THEN -1
  ELSE IF job_type_lookup_merge(a, b) < 0 THEN -1
  ELSE job_type_merge_and_collapse(a, b, active)

TypesMerged(a, b, c, active) ==
  /\ last = NoLast
  /\ last' = [ op |-> "job_type_merge_and_collapse", a |-> a, b |-> b, c |-> c,
               active |-> active,
               ab |-> job_type_lookup_merge(a, b),
               ba |-> job_type_lookup_merge(b, a),
               ab_c |-> MergedType(MergedType(a, b, active), c, active),
               a_bc |-> MergedType(a, MergedType(b, c, active), active),
               ac_b |-> MergedType(MergedType(a, c, active), b, active),
               mergeable_ab |-> job_type_is_mergeable(a, b),
               mergeable_bc |-> job_type_is_mergeable(b, c),
               mergeable_ac |-> job_type_is_mergeable(a, c),
               mergeable_ab_c |-> /\ job_type_is_mergeable(a, b)
                                  /\ job_type_is_mergeable(MergedType(a, b, active), c) ]
  /\ UNCHANGED << graph, job, n_alloc, unit_job, nop_job, jobs, run_queue,
                  dbus_job_queue, n_installed_jobs, n_running_jobs, n_failed_jobs,
                  n_reloading, pending_finished_jobs, current_job_id, call,
                  dispatching, coldplugged, assert_failed, finished_failed >>

TypesLookedUp(a, b) ==
  /\ last = NoLast
  /\ last' = [ op |-> "job_type_lookup_merge", a |-> a, b |-> b,
               asserts |-> job_type_lookup_merge_asserts(a, b),
               ret |-> job_type_lookup_merge(a, b),
               index |-> IF a = b THEN -1 ELSE job_type_lookup_merge_index(a, b),
               elements |-> Len(job_merging_table) ]
  /\ UNCHANGED << graph, job, n_alloc, unit_job, nop_job, jobs, run_queue,
                  dbus_job_queue, n_installed_jobs, n_running_jobs, n_failed_jobs,
                  n_reloading, pending_finished_jobs, current_job_id, call,
                  dispatching, coldplugged, assert_failed, finished_failed >>

(* the installed jobs job_serialize is given, and their subscribers *)
MaxSerializedNumber == 25

SerializedNumbers == {1, 12, MaxSerializedNumber}

InstalledJobRecords ==
  { [ZeroJob EXCEPT !.mem = "live", !.unit = 1, !.installed = TRUE, !.id = i,
                    !.type = ty, !.state = st, !.override = o, !.irreversible = ir,
                    !.ignore_order = io, !.sent_dbus_new_signal = sn,
                    !.begin_usec = b] :
      i \in {1, 12}, ty \in 0..(JOB_TYPE_MAX_IN_TRANSACTION - 1),
      st \in {JOB_WAITING, JOB_RUNNING}, o \in BOOLEAN, ir \in BOOLEAN,
      io \in BOOLEAN, sn \in BOOLEAN, b \in {0} \cup SerializedNumbers }

ClientLists == { << >>, << ":1.7" >>, << ":1.7", "org.example.Client" >> }

(* a line with a key job_deserialize does not know *)
UnknownLine == Line("job-priority", "1")

InsertLine(f, p, l) == SubSeq(f, 1, p - 1) \o << l >> \o SubSeq(f, p, Len(f))

(* job_serialize, then job_deserialize into what job_new_raw returns *)
JobRoundTrip(j, clients) ==
  /\ last = NoLast
  /\ \E fresh \in {job_new_raw(Cur, j.unit).job[1]}, f \in {job_serialize(j, clients)} :
       last' = [ op |-> "job_serialize", j |-> j, clients |-> clients, stream |-> f,
                 fresh |-> fresh,
                 back |-> job_deserialize(fresh, f),
                 back_unknown |-> { job_deserialize(fresh, InsertLine(f, p, UnknownLine)) :
                                      p \in 1..Len(f) } ]
  /\ UNCHANGED << graph, job, n_alloc, unit_job, nop_job, jobs, run_queue,
                  dbus_job_queue, n_installed_jobs, n_running_jobs, n_failed_jobs,
                  n_reloading, pending_finished_jobs, current_job_id, call,
                  dispatching, coldplugged, assert_failed, finished_failed >>

(* the four enumerations that have a string table, with their values *)
StringTables ==
  { [name |-> "job_type", value |-> v] : v \in 0..(JOB_TYPE_MAX - 1) }
  \cup { [name |-> "job_state", value |-> v] : v \in 0..(JOB_STATE_MAX - 1) }
  \cup { [name |-> "job_mode", value |-> v] : v \in 0..(JOB_MODE_MAX - 1) }
  \cup { [name |-> "job_result", value |-> v] : v \in 0..(JOB_RESULT_MAX - 1) }

table_to_string(name, v) ==
  CASE name = "job_type" -> job_type_to_string(v)
    [] name = "job_state" -> job_state_to_string(v)
    [] name = "job_mode" -> job_mode_to_string(v)
    [] name = "job_result" -> job_result_to_string(v)

table_from_string(name, str) ==
  CASE name = "job_type" -> job_type_from_string(str)
    [] name = "job_state" -> job_state_from_string(str)
    [] name = "job_mode" -> job_mode_from_string(str)
    [] name = "job_result" -> job_result_from_string(str)

(* x_to_string, then x_from_string *)
StringRoundTrip(e) ==
  /\ last = NoLast
  /\ last' = [ op |-> "string_table_lookup", name |-> e.name, value |-> e.value,
               str |-> table_to_string(e.name, e.value),
               back |-> table_from_string(e.name, table_to_string(e.name, e.value)) ]
  /\ UNCHANGED << graph, job, n_alloc, unit_job, nop_job, jobs, run_queue,
                  dbus_job_queue, n_installed_jobs, n_running_jobs, n_failed_jobs,
                  n_reloading, pending_finished_jobs, current_job_id, call,
                  dispatching, coldplugged, assert_failed, finished_failed >>

(* job_type_collapse of every type a request may carry, in every activation
   state of the unit *)
TypeCollapsed(t, active) ==
  /\ last = NoLast
  /\ last' = [ op |-> "job_type_collapse", t |-> t, active |-> active,
               ret |-> job_type_collapse(t, active) ]
  /\ UNCHANGED << graph, job, n_alloc, unit_job, nop_job, jobs, run_queue,
                  dbus_job_queue, n_installed_jobs, n_running_jobs, n_failed_jobs,
                  n_reloading, pending_finished_jobs, current_job_id, call,
                  dispatching, coldplugged, assert_failed, finished_failed >>

(* job_type_is_redundant of every type against every activation state *)
TypeCheckedRedundant(a, b) ==
  /\ last = NoLast
  /\ last' = [ op |-> "job_type_is_redundant", a |-> a, b |-> b,
               asserts |-> job_type_is_redundant_asserts(a),
               ret |-> job_type_is_redundant(a, b) ]
  /\ UNCHANGED << graph, job, n_alloc, unit_job, nop_job, jobs, run_queue,
                  dbus_job_queue, n_installed_jobs, n_running_jobs, n_failed_jobs,
                  n_reloading, pending_finished_jobs, current_job_id, call,
                  dispatching, coldplugged, assert_failed, finished_failed >>

InitFunctions == Init /\ graph = 1

NextFunctions ==
  \/ \E a \in MergeTypes, b \in MergeTypes, c \in MergeTypes, active \in UnitActiveStates :
       TypesMerged(a, b, c, active)
  \/ \E a \in MergeTypes, b \in MergeTypes : TypesLookedUp(a, b)
  \/ \E j \in InstalledJobRecords, clients \in ClientLists : JobRoundTrip(j, clients)
  \/ \E e \in StringTables : StringRoundTrip(e)
  \/ \E t \in JobTypes, active \in UnitActiveStates : TypeCollapsed(t, active)
  \/ \E a \in JobTypes, b \in UnitActiveStates : TypeCheckedRedundant(a, b)

SpecFunctions == InitFunctions /\ [][NextFunctions]_vars

(***************************************************************************)
(* The properties of the engine.                                           *)
(***************************************************************************)
RegularTypes == {JOB_START, JOB_VERIFY_ACTIVE, JOB_STOP, JOB_RELOAD, JOB_RESTART}

(* C1: in every reachable state a unit's regular slot holds at most one
   installed job, of type start, verify-active, stop, reload or restart, its
   nop slot holds at most one installed job, of type nop, and every installed
   job is the occupant of the slot of its unit and type-class. *)
C1_SlotsHoldTheirTypeClass ==
  /\ \A u \in Units :
       /\ unit_job[u] # NoJob =>
            /\ job[unit_job[u]].installed
            /\ job[unit_job[u]].unit = u
            /\ job[unit_job[u]].type \in RegularTypes
       /\ nop_job[u] # NoJob =>
            /\ job[nop_job[u]].installed
            /\ job[nop_job[u]].unit = u
            /\ job[nop_job[u]].type = JOB_NOP
  /\ \A h \in Handles :
       job[h].installed =>
         /\ job[h].unit \in Units
         /\ IF job[h].type = JOB_NOP THEN nop_job[job[h].unit] = h
            ELSE unit_job[job[h].unit] = h

(* a reload request was merged into a deserialized start job, and the merged
   reload-or-start was collapsed *)
C1_Witness ==
  /\ last.op = "manager_add_job"
  /\ last.outcome = "merged"
  /\ last.arg = JOB_RELOAD
  /\ job[last.ret].reloaded
  /\ job[last.ret].installed
  /\ job[last.ret].type = JOB_START

(* the installed start job h goes from waiting to running in this step *)
StartGoesRunning(h) ==
  /\ job[h].installed
  /\ job[h].type = JOB_START
  /\ job[h].state = JOB_WAITING
  /\ job'[h].installed
  /\ job'[h].id = job[h].id
  /\ job'[h].state = JOB_RUNNING

(* C2 as stated: a start job for unit B never goes from waiting to running
   while a job of type stop or restart exists on a unit of before(B), nor while
   a job of any type, in either slot, exists on a unit of after(B). *)
C2_StartWaitsForOrdering ==
  [][\A h \in Handles :
       StartGoesRunning(h) =>
         /\ \A o \in Before(job[h].unit) :
              ~(unit_job[o] # NoJob /\ job[unit_job[o]].type \in {JOB_STOP, JOB_RESTART})
         /\ \A o \in After(job[h].unit) : unit_job[o] = NoJob /\ nop_job[o] = NoJob]_vars

(* C2 amended: a start job for unit B that does not have ignore_order set never
   goes from waiting to running while a regular-slot job of type stop or
   restart exists on a unit of before(B), nor while any regular-slot job exists
   on a unit of after(B). *)
C2_StartWithoutIgnoreOrderWaits ==
  [][\A h \in Handles :
       (StartGoesRunning(h) /\ ~job[h].ignore_order) =>
         /\ \A o \in Before(job[h].unit) :
              ~(unit_job[o] # NoJob /\ job[unit_job[o]].type \in {JOB_STOP, JOB_RESTART})
         /\ \A o \in After(job[h].unit) : unit_job[o] = NoJob]_vars

(* a start job without ignore_order was dispatched and is running while a nop
   job sits on a unit of its after set *)
C2_Witness ==
  /\ last.op = "job_run_and_invalidate"
  /\ last.job # NoJob
  /\ job[last.job].installed
  /\ job[last.job].type = JOB_START
  /\ job[last.job].state = JOB_RUNNING
  /\ ~job[last.job].ignore_order
  /\ \E o \in After(job[last.job].unit) : nop_job[o] # NoJob

(* the occupant of the slot the request of this step goes to *)
RequestedSlot == IF last'.arg = JOB_NOP THEN nop_job[last'.unit] ELSE unit_job[last'.unit]

(* this step is a request whose type conflicts with the type of the occupant *)
ConflictingRequest ==
  /\ last'.op = "manager_add_job"
  /\ last'.arg \in RegularTypes
  /\ RequestedSlot # NoJob
  /\ job_type_is_conflicting(job[RequestedSlot].type, last'.arg)

(* C3: when job_install is given a job whose type conflicts with the type of
   the slot's occupant, the occupant is finished with result canceled and
   recursive = FALSE, it is the only job the call finishes (no job of another
   unit is finished with dependency), the slot is empty when the new job is
   placed, and the new job is installed in the slot as another job with
   another id. *)
C3_ConflictCancelsOccupant ==
  [][(ConflictingRequest /\ ~job[RequestedSlot].irreversible) =>
       /\ last'.outcome = "replaced"
       /\ Len(last'.finished) = 1
       /\ last'.finished[1].job = RequestedSlot
       /\ last'.finished[1].result = JOB_CANCELED
       /\ ~last'.finished[1].recursive
       /\ ~job'[RequestedSlot].installed
       /\ \A h \in Handles \ {RequestedSlot} : job[h].installed => job'[h].installed
       /\ last'.displaced = NoJob
       /\ last'.ret \in Handles \ {RequestedSlot}
       /\ job'[last'.ret].installed
       /\ unit_job'[last'.unit] = last'.ret
       /\ job'[last'.ret].type = last'.arg
       /\ job'[last'.ret].id # job[RequestedSlot].id]_vars

(* a start job was canceled by a stop request while a unit that requires its
   unit has a start job, which is still installed *)
C3_Witness ==
  /\ last.op = "manager_add_job"
  /\ last.outcome = "replaced"
  /\ Len(last.finished) = 1
  /\ last.finished[1].type = JOB_START
  /\ last.finished[1].result = JOB_CANCELED
  /\ \E v \in RequiredBy(last.unit) :
       /\ unit_job[v] # NoJob
       /\ job[unit_job[v]].type = JOB_START
       /\ job[unit_job[v]].installed

(* the jobs, the slots, the queues and the counters of the manager *)
ManagerState ==
  << job, n_alloc, unit_job, nop_job, jobs, run_queue, dbus_job_queue,
     n_installed_jobs, n_running_jobs, n_failed_jobs, pending_finished_jobs,
     current_job_id, call >>

(* C4: a request whose type conflicts with the type of an installed incumbent
   that has irreversible set fails: the incumbent is not finished and stays in
   its slot as it was, no job is installed, and nothing else of the manager
   changes. *)
C4_IrreversibleIncumbentStays ==
  [][(ConflictingRequest /\ job[RequestedSlot].irreversible) =>
       /\ last'.outcome = "destructive"
       /\ last'.ret < 0
       /\ last'.finished = << >>
       /\ unit_job'[last'.unit] = unit_job[last'.unit]
       /\ job'[RequestedSlot] = job[RequestedSlot]
       /\ UNCHANGED ManagerState]_vars

(* a stop request was refused because the unit's start job is irreversible *)
C4_Witness ==
  /\ last.op = "manager_add_job"
  /\ last.outcome = "destructive"
  /\ last.arg = JOB_STOP
  /\ unit_job[last.unit] # NoJob
  /\ job[unit_job[last.unit]].installed
  /\ job[unit_job[last.unit]].type = JOB_START
  /\ job[unit_job[last.unit]].irreversible

(* the elements of a sequence *)
Range(q) == {q[i] : i \in 1..Len(q)}

(* the calls of job_finish_and_invalidate this step made and completed *)
Finished == IF last'.outcome = "abort" THEN {} ELSE Range(last'.finished)

(* C5: job_finish_and_invalidate with result done on an installed restart job
   does not uninstall it: the job becomes a waiting start job on the run queue,
   with the id and the slot it had; a finish with result done of a job of any
   other type, the patched job included, is not patched and uninstalls it. *)
C5_RestartIsPatchedToStart ==
  [][\A e \in Finished :
       e.result = JOB_DONE =>
         IF e.type = JOB_RESTART
         THEN /\ e.patched
              /\ job'[e.job].installed
              /\ job'[e.job].type = JOB_START
              /\ job'[e.job].state = JOB_WAITING
              /\ job'[e.job].in_run_queue
              /\ e.job \in Range(run_queue')
              /\ job'[e.job].id = e.id
              /\ jobs'[e.id] = e.job
              /\ unit_job[e.unit] = e.job
              /\ unit_job'[e.unit] = e.job
         ELSE /\ ~e.patched
              /\ ~job'[e.job].installed
              /\ jobs'[e.id] = NoJob
              /\ unit_job'[e.unit] # e.job
              /\ nop_job'[e.unit] # e.job]_vars

(* a restart job whose stop was reported done is a waiting start job on the
   run queue *)
C5_Witness ==
  /\ last.op = "unit_notify"
  /\ Len(last.finished) = 1
  /\ last.finished[1].type = JOB_RESTART
  /\ last.finished[1].result = JOB_DONE
  /\ last.finished[1].patched
  /\ job[last.job].installed
  /\ job[last.job].id = last.finished[1].id
  /\ job[last.job].type = JOB_START
  /\ job[last.job].state = JOB_WAITING
  /\ run_queue = << last.job >>

(* the log of the calls of job_finish_and_invalidate of this step, in call order *)
FinishLog == IF last'.outcome = "abort" THEN << >> ELSE last'.finished

StartOrVerify == {JOB_START, JOB_VERIFY_ACTIVE}

(* call i finished a start or verify-active job, not with done, recursively *)
FailsRecursively(i) ==
  /\ FinishLog[i].type \in StartOrVerify
  /\ FinishLog[i].result # JOB_DONE
  /\ FinishLog[i].recursive

(* the regular-slot job of unit v, when it is still there as call i begins *)
DependentJob(i, v) ==
  IF unit_job[v] # NoJob /\ \A k \in 1..i : FinishLog[k].job # unit_job[v]
  THEN unit_job[v] ELSE NoJob

(* a later call of this step finished job oj with result dependency *)
FailedAfter(i, oj) ==
  /\ \E k \in (i + 1)..Len(FinishLog) :
       FinishLog[k].job = oj /\ FinishLog[k].result = JOB_DEPENDENCY
  /\ ~job'[oj].installed

(* C6: when a start or verify-active job finishes with a result other than
   done and recursive is true, the start or verify-active job in the regular
   slot of every unit of its unit's required_by and bound_by sets is finished
   with result dependency; so is the one of every unit of the
   required_by_overridable set, unless it has override set, and then this call
   does not finish it; a job of another type on any of those units is not
   finished and stays installed. *)
C6_FailureReachesDependents ==
  [][\A i \in 1..Len(FinishLog) :
       FailsRecursively(i) =>
         LET u == FinishLog[i].unit
         IN /\ \A v \in RequiredBy(u) \cup BoundBy(u) :
                 (DependentJob(i, v) # NoJob /\ job[DependentJob(i, v)].type \in StartOrVerify)
                   => FailedAfter(i, DependentJob(i, v))
            /\ \A v \in RequiredByOverridable(u) :
                 (DependentJob(i, v) # NoJob /\ job[DependentJob(i, v)].type \in StartOrVerify)
                   => IF job[DependentJob(i, v)].override
                      THEN \A k \in 1..Len(FinishLog) :
                             ~(/\ FinishLog[k].job = DependentJob(i, v)
                               /\ FinishLog[k].via = "required_by_overridable"
                               /\ FinishLog[k].parent = FinishLog[i].job)
                      ELSE FailedAfter(i, DependentJob(i, v))
            /\ \A v \in RequiredBy(u) \cup BoundBy(u) \cup RequiredByOverridable(u) :
                 (DependentJob(i, v) # NoJob /\ job[DependentJob(i, v)].type \notin StartOrVerify)
                   => /\ job'[DependentJob(i, v)].installed
                      /\ \A k \in 1..Len(FinishLog) : FinishLog[k].job # DependentJob(i, v)]_vars

(* a start job failed; the start job of the unit bound to its unit was finished
   with dependency, and the start job with override of the unit that requires
   it overridably is still installed *)
C6_Witness ==
  /\ last.outcome # "abort"
  /\ Len(last.finished) = 2
  /\ last.finished[1].type = JOB_START
  /\ last.finished[1].result = JOB_FAILED
  /\ last.finished[1].recursive
  /\ last.finished[2].result = JOB_DEPENDENCY
  /\ last.finished[2].via = "bound_by"
  /\ last.finished[2].unit \in BoundBy(last.finished[1].unit)
  /\ \E v \in RequiredByOverridable(last.finished[1].unit) :
       /\ unit_job[v] # NoJob
       /\ job[unit_job[v]].installed
       /\ job[unit_job[v]].type = JOB_START
       /\ job[unit_job[v]].override

(* C7: when the timer of a job fires, the job is finished with result timeout
   and recursive = TRUE: it is uninstalled, and when it is a start job every
   start or verify-active job in the regular slot of a unit of its unit's
   required_by set is finished with dependency; the job_timeout_action of the
   unit is executed once, after all of that. *)
C7_TimeoutThenAction ==
  [][(last'.op = "job_dispatch_timer" /\ last'.outcome # "abort") =>
       /\ Len(FinishLog) >= 1
       /\ FinishLog[1].job = last'.job
       /\ FinishLog[1].result = JOB_TIMEOUT
       /\ FinishLog[1].recursive
       /\ FinishLog[1].via = "direct"
       /\ job[last'.job].installed
       /\ ~job'[last'.job].installed
       /\ ~job'[last'.job].timer_event_source
       /\ FinishLog[1].type = JOB_START =>
            \A v \in RequiredBy(last'.unit) :
              (DependentJob(1, v) # NoJob /\ job[DependentJob(1, v)].type \in StartOrVerify)
                => FailedAfter(1, DependentJob(1, v))
       /\ last'.emergency =
            << [unit |-> last'.unit, job |-> last'.job, job_installed |-> FALSE,
                after_finishes |-> Len(FinishLog)] >>]_vars

(* the timer of a start job fired while a unit that requires its unit had a
   start job: that one was finished with dependency before the action *)
C7_Witness ==
  /\ last.op = "job_dispatch_timer"
  /\ Len(last.finished) = 2
  /\ last.finished[1].type = JOB_START
  /\ last.finished[1].result = JOB_TIMEOUT
  /\ last.finished[2].result = JOB_DEPENDENCY
  /\ last.finished[2].via = "required_by"
  /\ last.finished[2].type = JOB_START
  /\ Len(last.emergency) = 1
  /\ last.emergency[1].after_finishes = 2
  /\ ~job[last.job].installed

(* the primitive of a job that still exists returned r in this step *)
PrimitiveReturned(r) ==
  /\ last'.op = "primitive_return"
  /\ last'.outcome # "abort"
  /\ last'.job # NoJob
  /\ last'.arg = r

(* the step finished the job the primitive was called for, with this result *)
RunFinishedWith(result, already) ==
  /\ Len(FinishLog) >= 1
  /\ FinishLog[1].job = last'.job
  /\ FinishLog[1].id = call.id
  /\ FinishLog[1].result = result
  /\ FinishLog[1].already = already
  /\ FinishLog[1].recursive
  /\ FinishLog[1].via = "direct"

(* the codes the mapping of job_run_and_invalidate names *)
NamedCodes == {-EALREADY, -EBADR, -ENOEXEC, -EPROTO, -ENOTSUP, -EAGAIN}

RunMapsTheCodes ==
  /\ PrimitiveReturned(-EALREADY) => RunFinishedWith(JOB_DONE, TRUE)
  /\ PrimitiveReturned(-ENOEXEC) => RunFinishedWith(JOB_INVALID, FALSE)
  /\ PrimitiveReturned(-EPROTO) => RunFinishedWith(JOB_ASSERT, FALSE)
  /\ PrimitiveReturned(-ENOTSUP) => RunFinishedWith(JOB_UNSUPPORTED, FALSE)
  /\ \A r \in PrimitiveReturns :
       (r < 0 /\ r \notin NamedCodes /\ PrimitiveReturned(r))
         => RunFinishedWith(JOB_FAILED, FALSE)
  /\ PrimitiveReturned(-EAGAIN) =>
       /\ FinishLog = << >>
       /\ job'[last'.job].installed
       /\ job'[last'.job].state = JOB_WAITING
       /\ job'[last'.job].id = call.id

(* C8 as stated: when the job still exists after the primitive returns,
   EALREADY finishes it with done and the already flag, ENOEXEC with invalid,
   EPROTO with assert, ENOTSUP with unsupported, any other negative code but
   EAGAIN and EBADR with failed; EAGAIN puts it back to waiting, installed; a
   code >= 0 leaves the job installed in running state. *)
C8_ReturnCodeDecides ==
  [][/\ RunMapsTheCodes
     /\ \A r \in PrimitiveReturns :
          (r >= 0 /\ PrimitiveReturned(r)) =>
            /\ FinishLog = << >>
            /\ job'[last'.job].installed
            /\ job'[last'.job].state = JOB_RUNNING]_vars

(* C8, amended: the same mapping of the negative codes; a code >= 0 changes
   nothing, so that the job stays installed in the state it has when the
   primitive returns: running, unless a notification or a merged request during
   the call of the primitive has put it back to waiting. *)
C8_ReturnCodeDecidesOrLeaves ==
  [][/\ RunMapsTheCodes
     /\ \A r \in PrimitiveReturns :
          (r >= 0 /\ PrimitiveReturned(r)) =>
            /\ FinishLog = << >>
            /\ job'[last'.job].installed
            /\ job' = job
            /\ n_running_jobs' = n_running_jobs
            /\ run_queue' = run_queue]_vars

(* a reload job's primitive returned ENOTSUP and the job was finished with
   unsupported and uninstalled *)
C8_Witness ==
  /\ last.op = "primitive_return"
  /\ last.arg = -ENOTSUP
  /\ Len(last.finished) >= 1
  /\ last.finished[1].job = last.job
  /\ last.finished[1].type = JOB_RELOAD
  /\ last.finished[1].result = JOB_UNSUPPORTED
  /\ ~job[last.job].installed

(* C9 as stated: whatever the type of the job, when the primitive that
   job_run_and_invalidate called returns EBADR and the job still exists, the
   job is finished with result skipped. *)
C9_EbadrSkips ==
  [][PrimitiveReturned(-EBADR) => RunFinishedWith(JOB_SKIPPED, FALSE)]_vars

(* C9, amended: EBADR from unit_reload finishes the reload job with result
   skipped and uninstalls it; EBADR from unit_start or unit_stop is replaced by
   0 in the switch, so that the start, stop or restart job is not finished and
   stays installed as it is. *)
C9_EbadrSkipsReloadOnly ==
  [][PrimitiveReturned(-EBADR) =>
       /\ call.primitive = job_run_primitive(call.type)
       /\ call.primitive = "unit_reload" =>
            /\ call.type = JOB_RELOAD
            /\ RunFinishedWith(JOB_SKIPPED, FALSE)
            /\ ~job'[last'.job].installed
       /\ call.primitive \in {"unit_start", "unit_stop"} =>
            /\ call.type \in {JOB_START, JOB_STOP, JOB_RESTART}
            /\ FinishLog = << >>
            /\ job' = job
            /\ job'[last'.job].installed
            /\ last'.ret = 0
       /\ call.primitive \in {"unit_start", "unit_stop", "unit_reload"}]_vars

(* unit_start returned EBADR for a start job, which is still installed and
   running *)
C9_Witness ==
  /\ last.op = "primitive_return"
  /\ last.arg = -EBADR
  /\ last.job # NoJob
  /\ last.finished = << >>
  /\ job[last.job].installed
  /\ job[last.job].type = JOB_START
  /\ job[last.job].state = JOB_RUNNING

RunningJobs == {h \in Handles : job[h].installed /\ job[h].state = JOB_RUNNING}

(* C10: in every reachable state n_running_jobs is the number of installed
   jobs whose state is running, whichever of job_install, job_run_and_invalidate,
   the restart patch, job_uninstall and the deserialization of a job, accepted
   or refused with EEXIST or EINVAL, led to it; and the assertion
   n_running_jobs > 0 of job_set_state has not failed. *)
C10_RunningJobsAreCounted ==
  /\ n_running_jobs = Cardinality(RunningJobs)
  /\ assert_failed # "job_set_state: n_running_jobs > 0"

(* a running job was deserialized and installed, and the deserialization of a
   second running job for the same slot has just been refused with EEXIST *)
C10_Witness ==
  /\ last.op = "unit_deserialize"
  /\ last.outcome = "refused"
  /\ last.ret = -EEXIST
  /\ n_running_jobs = 1
  /\ \E h \in RunningJobs : job[h].reloaded /\ job[h].unit = last.unit

(* job h is installed and running after the step and was not before it *)
EntersRunning(h) ==
  /\ job'[h].installed
  /\ job'[h].state = JOB_RUNNING
  /\ ~(job[h].installed /\ job[h].state = JOB_RUNNING)

(* the ordering condition on job h, over the slots the step leaves *)
RunnableAtEntry(h) ==
  \/ job'[h].ignore_order
  \/ job'[h].type = JOB_NOP
  \/ /\ job'[h].type \in {JOB_START, JOB_VERIFY_ACTIVE, JOB_RELOAD}
          => \A o \in After(job'[h].unit) : unit_job'[o] = NoJob
     /\ \A o \in Before(job'[h].unit) :
          \/ unit_job'[o] = NoJob
          \/ job'[unit_job'[o]].type \notin {JOB_STOP, JOB_RESTART}

(* C11 as stated: whenever a job becomes an installed job in state running,
   the ordering condition of job_is_runnable holds for it at that moment. *)
C11_RunningWasRunnable ==
  [][\A h \in Handles : EntersRunning(h) => RunnableAtEntry(h)]_vars

(* C11, amended: a job that job_run_and_invalidate moves to running satisfies
   the ordering condition of job_is_runnable at that moment, and no other
   handler but the deserialization of a job makes a job running; a job that
   was serialized in state running is installed as running by
   job_install_deserialized without the condition being looked at. *)
C11_RunIsRunnableDeserializedIsNot ==
  [][\A h \in Handles :
       EntersRunning(h) =>
         \/ /\ last'.op = "job_run_and_invalidate"
            /\ last'.job = h
            /\ RunnableAtEntry(h)
         \/ /\ last'.op = "unit_deserialize"
            /\ last'.outcome = "reinstalled"
            /\ ~job[h].installed
            /\ job'[h].reloaded]_vars

(* job_run_and_invalidate has just moved a start job to running while the unit
   ordered after its unit holds a waiting job *)
C11_Witness ==
  /\ last.op = "job_run_and_invalidate"
  /\ last.job # NoJob
  /\ job[last.job].installed
  /\ job[last.job].state = JOB_RUNNING
  /\ job[last.job].type = JOB_START
  /\ ~job[last.job].ignore_order
  /\ call.active
  /\ \E o \in Before(job[last.job].unit) :
       unit_job[o] # NoJob /\ job[unit_job[o]].state = JOB_WAITING

(* the last step applied the merge functions to three merge-domain types *)
Merged == last.op = "job_type_merge_and_collapse"

(* C12: job_type_lookup_merge is commutative on the merge-domain types;
   merge-and-collapse under one unit activation state is associative where the
   merges are defined: (a with b) with c, a with (b with c) and (a with c) with
   b give the same type; mergeability is transitive; and when (a merged with b)
   cannot be merged with c, a or b cannot be merged with c. *)
C12_MergeAlgebra ==
  Merged =>
    /\ last.ab = last.ba
    /\ (last.ab_c >= 0 /\ last.a_bc >= 0) => last.ab_c = last.a_bc
    /\ (last.ab_c >= 0 /\ last.ac_b >= 0) => last.ab_c = last.ac_b
    /\ (last.mergeable_ab /\ last.mergeable_bc) => last.mergeable_ac
    /\ (last.mergeable_ab /\ ~last.mergeable_ab_c)
         => (~last.mergeable_ac \/ ~last.mergeable_bc)

(* start, verify-active and reload merged in the three orders on an active
   unit: each order passes through a different intermediate type and ends in
   reload *)
C12_Witness ==
  /\ Merged
  /\ last.a = JOB_START /\ last.b = JOB_VERIFY_ACTIVE /\ last.c = JOB_RELOAD
  /\ last.active = UNIT_ACTIVE
  /\ last.ab = JOB_START
  /\ last.ab_c = JOB_RELOAD
  /\ last.a_bc = JOB_RELOAD
  /\ last.ac_b = JOB_RELOAD

(* the merge table as it is specified, rows and columns in the order start,
   verify-active, stop, reload, restart *)
SpecifiedMerge ==
  << << JOB_START, JOB_START, -1, JOB_RELOAD_OR_START, JOB_RESTART >>,
     << JOB_START, JOB_VERIFY_ACTIVE, -1, JOB_RELOAD, JOB_RESTART >>,
     << -1, -1, JOB_STOP, -1, -1 >>,
     << JOB_RELOAD_OR_START, JOB_RELOAD, -1, JOB_RELOAD, JOB_RESTART >>,
     << JOB_RESTART, JOB_RESTART, -1, JOB_RESTART, JOB_RESTART >> >>

(* C13: for every pair of types of start, verify-active, stop, reload and
   restart job_type_lookup_merge returns what the specified table says: the
   type itself for equal types, start for start with verify-active, -1 for stop
   with any other type, reload-or-start for reload with start, reload for
   reload with verify-active, restart for restart with start, verify-active or
   reload; its assertions hold and the index it reads lies inside the table. *)
C13_LookupAgreesWithTable ==
  last.op = "job_type_lookup_merge" =>
    /\ last.asserts
    /\ last.ret = SpecifiedMerge[last.a + 1][last.b + 1]
    /\ last.a # last.b => (last.index >= 0 /\ last.index < last.elements)
    /\ last.elements = (JOB_TYPE_MAX_MERGING * (JOB_TYPE_MAX_MERGING - 1)) \div 2

(* restart was looked up with reload, the pair that reads the last element of
   the table *)
C13_Witness ==
  /\ last.op = "job_type_lookup_merge"
  /\ last.a = JOB_RELOAD
  /\ last.b = JOB_RESTART
  /\ last.ret = JOB_RESTART
  /\ last.index = last.elements - 1

(* this step is a request whose type can be merged with the type of the
   occupant of its slot *)
MergingRequest ==
  /\ last'.op = "manager_add_job"
  /\ last'.outcome # "abort"
  /\ last'.arg \in RegularTypes
  /\ RequestedSlot # NoJob
  /\ SpecifiedMerge[job[RequestedSlot].type + 1][last'.arg + 1] >= 0

(* the occupant need not run again for the request: it is waiting, or its type
   is a superset of the requested type and the requested type is not reload *)
MergesQuietly ==
  \/ job[RequestedSlot].state = JOB_WAITING
  \/ /\ last'.arg # JOB_RELOAD
     /\ SpecifiedMerge[job[RequestedSlot].type + 1][last'.arg + 1] = job[RequestedSlot].type

(* the specified merge of the occupant's type with the requested type,
   collapsed for the activation state the unit had in this step *)
MergedAndCollapsed ==
  LET t == SpecifiedMerge[job[RequestedSlot].type + 1][last'.arg + 1]
  IN IF t = JOB_RELOAD_OR_START
     THEN IF last'.collapse_inactive THEN JOB_START ELSE JOB_RELOAD
     ELSE t

(* the request installed no job: the same jobs are installed, in the same slots *)
NothingInstalled ==
  /\ \A h \in Handles : job'[h].installed = job[h].installed
  /\ unit_job' = unit_job
  /\ nop_job' = nop_job
  /\ n_installed_jobs' = n_installed_jobs

(* C14: when job_install finds an occupant whose type can be merged with the
   new job's, that is running, and that is neither of a type that is a superset
   of the new type with the new type other than reload, the occupant's type
   becomes the merged and collapsed type, its state goes back to waiting and
   n_running_jobs goes down by one, the new job is not installed, and the
   occupant is returned with the id it had. *)
C14_RunningOccupantRunsAgain ==
  [][(MergingRequest /\ ~MergesQuietly) =>
       /\ job[RequestedSlot].state = JOB_RUNNING
       /\ last'.outcome = "rerun"
       /\ last'.ret = RequestedSlot
       /\ job'[RequestedSlot].type = MergedAndCollapsed
       /\ job'[RequestedSlot].state = JOB_WAITING
       /\ job'[RequestedSlot].id = job[RequestedSlot].id
       /\ n_running_jobs' = n_running_jobs - 1
       /\ last'.finished = << >>
       /\ NothingInstalled]_vars

(* a reload request met a running start job on an inactive unit: the job is a
   start job again (reload-or-start collapsed), waiting and on the run queue *)
C14_Witness ==
  /\ last.op = "manager_add_job"
  /\ last.outcome = "rerun"
  /\ last.arg = JOB_RELOAD
  /\ last.collapse_inactive
  /\ last.ret = unit_job[last.unit]
  /\ job[last.ret].type = JOB_START
  /\ job[last.ret].state = JOB_WAITING
  /\ job[last.ret].in_run_queue
  /\ n_running_jobs = 0

(* C15: when job_install finds an occupant whose type can be merged with the
   new job's and that is waiting, or running with a type that is a superset of
   the new type while the new type is not reload, the occupant is returned and
   the new job is not installed; the occupant's type becomes the merged and
   collapsed type, each of its override, irreversible and ignore_order flags
   becomes the OR of the two jobs' flags, and its state, its id, its slot,
   n_installed_jobs and n_running_jobs stay as they are. *)
C15_QuietMergeKeepsTheOccupant ==
  [][(MergingRequest /\ MergesQuietly) =>
       /\ last'.outcome = "merged"
       /\ last'.ret = RequestedSlot
       /\ last'.merged_job.type = last'.arg
       /\ last'.merged_job.unit = last'.unit
       /\ job'[RequestedSlot].type = MergedAndCollapsed
       /\ job'[RequestedSlot].override =
            (job[RequestedSlot].override \/ last'.merged_job.override)
       /\ job'[RequestedSlot].irreversible =
            (job[RequestedSlot].irreversible \/ last'.merged_job.irreversible)
       /\ job'[RequestedSlot].ignore_order =
            (job[RequestedSlot].ignore_order \/ last'.merged_job.ignore_order)
       /\ job'[RequestedSlot].state = job[RequestedSlot].state
       /\ job'[RequestedSlot].id = job[RequestedSlot].id
       /\ n_running_jobs' = n_running_jobs
       /\ last'.finished = << >>
       /\ NothingInstalled]_vars

(* a start request with a flag set met a running restart job without it: the
   job is still a running restart job, and has the flag now *)
C15_Witness ==
  /\ last.op = "manager_add_job"
  /\ last.outcome = "merged"
  /\ last.arg = JOB_START
  /\ last.ret = unit_job[last.unit]
  /\ job[last.ret].type = JOB_RESTART
  /\ job[last.ret].state = JOB_RUNNING
  /\ \/ last.merged_job.override /\ job[last.ret].override
     \/ last.merged_job.irreversible /\ job[last.ret].irreversible
     \/ last.merged_job.ignore_order /\ job[last.ret].ignore_order

(* this step deserialized a job and handed it to job_install_deserialized *)
InstallsDeserialized ==
  /\ last'.op = "unit_deserialize"
  /\ last'.outcome \in {"reinstalled", "refused"}

(* the slot the deserialized job goes to, before and after the step *)
DeserializedSlot ==
  IF last'.deserialized.type = JOB_NOP
  THEN nop_job[last'.deserialized.unit] ELSE unit_job[last'.deserialized.unit]

DeserializedSlotAfter ==
  IF last'.deserialized.type = JOB_NOP
  THEN nop_job'[last'.deserialized.unit] ELSE unit_job'[last'.deserialized.unit]

DeserializedTypeAllowed ==
  last'.deserialized.type >= 0 /\ last'.deserialized.type < JOB_TYPE_MAX_IN_TRANSACTION

(* slots, installed jobs, the id table and the counters are as they were *)
InstallRefused ==
  /\ unit_job' = unit_job
  /\ nop_job' = nop_job
  /\ jobs' = jobs
  /\ \A h \in Handles : job[h].installed => job'[h] = job[h]
  /\ \A h \in Handles : job'[h].installed => job[h].installed
  /\ n_installed_jobs' = n_installed_jobs
  /\ n_running_jobs' = n_running_jobs
  /\ n_failed_jobs' = n_failed_jobs

(* C16: job_install_deserialized installs the job only when its type is allowed
   in a transaction and its slot is empty: the job then occupies the slot with
   installed and reloaded set, and n_running_jobs goes up by one exactly when
   the job's state is running; with a type that is invalid or not allowed in a
   transaction it returns EINVAL, with an occupied slot EEXIST, and in both
   cases slots, incumbent and counters are unchanged. *)
C16_DeserializedGoesToEmptySlot ==
  [][InstallsDeserialized =>
       /\ ~DeserializedTypeAllowed => (last'.ret = -EINVAL /\ InstallRefused)
       /\ (DeserializedTypeAllowed /\ DeserializedSlot # NoJob)
            => (last'.ret = -EEXIST /\ InstallRefused)
       /\ (DeserializedTypeAllowed /\ DeserializedSlot = NoJob) =>
            /\ last'.ret = 0
            /\ DeserializedSlotAfter \in Handles
            /\ ~job[DeserializedSlotAfter].installed
            /\ job'[DeserializedSlotAfter] =
                 [last'.deserialized EXCEPT !.installed = TRUE, !.reloaded = TRUE]
            /\ jobs'[last'.deserialized.id] = DeserializedSlotAfter
            /\ n_running_jobs' = n_running_jobs
                 + (IF last'.deserialized.state = JOB_RUNNING THEN 1 ELSE 0)
            /\ n_failed_jobs' = n_failed_jobs
            /\ \A h \in Handles : job[h].installed => job'[h] = job[h]
            /\ \A u \in Units :
                 /\ unit_job[u] # NoJob => unit_job'[u] = unit_job[u]
                 /\ nop_job[u] # NoJob => nop_job'[u] = nop_job[u]]_vars

(* a running stop job was deserialized for a unit whose regular slot a
   deserialized waiting job holds, and was refused with EEXIST *)
C16_Witness ==
  /\ last.op = "unit_deserialize"
  /\ last.outcome = "refused"
  /\ last.ret = -EEXIST
  /\ last.deserialized.type = JOB_STOP
  /\ last.deserialized.state = JOB_RUNNING
  /\ unit_job[last.unit] # NoJob
  /\ job[unit_job[last.unit]].reloaded
  /\ job[unit_job[last.unit]].state = JOB_WAITING
  /\ n_running_jobs = 0

(* C17: job_serialize of an installed job followed by job_deserialize into a
   fresh job gives a job with the same id, type, state, override, irreversible,
   sent_dbus_new_signal and ignore_order flags and begin_usec, the job-begin
   line being left out when begin_usec is 0, and with the same subscribers;
   a line with an unknown key anywhere in the stream changes nothing. *)
C17_SerializeRoundTrip ==
  last.op = "job_serialize" =>
    /\ last.back.id = last.j.id
    /\ last.back.type = last.j.type
    /\ last.back.state = last.j.state
    /\ last.back.override = last.j.override
    /\ last.back.irreversible = last.j.irreversible
    /\ last.back.sent_dbus_new_signal = last.j.sent_dbus_new_signal
    /\ last.back.ignore_order = last.j.ignore_order
    /\ last.back.begin_usec = last.j.begin_usec
    /\ (last.j.begin_usec = 0) =
         (\A p \in 1..Len(last.stream) : last.stream[p].k # "job-begin")
    /\ last.back.deserialized_clients = last.clients
    /\ last.back.unit = last.j.unit
    /\ ~last.back.installed
    /\ last.back_unknown = {last.back}

(* a running nop job with id 12, ignore_order set, begin_usec 0 and two
   subscribers went through the stream *)
C17_Witness ==
  /\ last.op = "job_serialize"
  /\ last.j.id = 12
  /\ last.j.type = JOB_NOP
  /\ last.j.state = JOB_RUNNING
  /\ last.j.ignore_order
  /\ last.j.begin_usec = 0
  /\ Len(last.clients) = 2
  /\ last.fresh.type = JOB_TYPE_INVALID
  /\ last.back.type = JOB_NOP
  /\ last.back.ignore_order
  /\ last.back.id = 12
  /\ Len(last.back.deserialized_clients) = 2

(* C18: for every value of the job type, job state, job mode and job result
   enumerations, x_from_string(x_to_string(value)) is the value. *)
C18_StringRoundTrip ==
  last.op = "string_table_lookup" => last.back = last.value

(* the timer of a start job fired and the start job of a unit that requires
   its unit was finished with dependency *)
TimeoutScenario ==
  /\ last'.op = "job_dispatch_timer"
  /\ Len(FinishLog) = 2
  /\ FinishLog[1].type = JOB_START
  /\ FinishLog[1].result = JOB_TIMEOUT
  /\ FinishLog[2].type = JOB_START
  /\ FinishLog[2].result = JOB_DEPENDENCY
  /\ FinishLog[2].via = "required_by"

(* C19 as stated: in the timeout scenario the job that timed out is counted in
   n_failed_jobs and the dependent that finished with dependency is not. *)
C19_TimeoutIsCountedFailed ==
  [][TimeoutScenario => n_failed_jobs' = n_failed_jobs + 1]_vars

(* the calls of this step that finished a job with result failed or invalid *)
FailedOrInvalid ==
  {i \in 1..Len(FinishLog) : FinishLog[i].result \in {JOB_FAILED, JOB_INVALID}}

(* C19, amended: n_failed_jobs counts the jobs finished with result failed or
   invalid and no others; in the timeout scenario neither the job that timed
   out nor the dependent finished with dependency is counted, and
   n_failed_jobs stays as it was. *)
C19_OnlyFailedAndInvalidAreCounted ==
  [][/\ last'.outcome # "abort"
          => n_failed_jobs' = n_failed_jobs + Cardinality(FailedOrInvalid)
     /\ TimeoutScenario => n_failed_jobs' = n_failed_jobs]_vars

(* start F timed out, start G was finished with dependency, both are
   uninstalled and n_failed_jobs is 0 *)
C19_Witness ==
  /\ last.op = "job_dispatch_timer"
  /\ Len(last.finished) = 2
  /\ last.finished[1].result = JOB_TIMEOUT
  /\ last.finished[1].type = JOB_START
  /\ last.finished[2].result = JOB_DEPENDENCY
  /\ last.finished[2].type = JOB_START
  /\ ~job[last.finished[1].job].installed
  /\ ~job[last.finished[2].job].installed
  /\ n_failed_jobs = 0

(* the jobs that are installed after the step and were not before it *)
Placed == {h \in Handles : ~job[h].installed /\ job'[h].installed}

(* C20: n_installed_jobs never decreases: a request that job_install answers by
   placing the new job in its slot, empty before or emptied by the cancellation
   of a conflicting occupant, adds exactly one; merges, uninstalls, finishes,
   the restart patch and job_install_deserialized leave it as it is. *)
C20_InstalledJobsAreCountedOnce ==
  [][/\ n_installed_jobs' >= n_installed_jobs
     /\ (last'.op = "manager_add_job" /\ last'.outcome # "abort") =>
          /\ Cardinality(Placed) <= 1
          /\ n_installed_jobs' = n_installed_jobs + Cardinality(Placed)
          /\ (last'.outcome \in {"installed", "replaced"}) = (Placed # {})
     /\ last'.op # "manager_add_job" => n_installed_jobs' = n_installed_jobs
     /\ (last'.op = "unit_deserialize" /\ last'.outcome = "reinstalled") =>
          Cardinality(Placed) = 1]_vars

(* a request cancelled a conflicting job that had been deserialized and its
   job was placed: two jobs have been installed, one of them by job_install *)
C20_Witness ==
  /\ last.op = "manager_add_job"
  /\ last.outcome = "replaced"
  /\ Len(last.finished) = 1
  /\ last.finished[1].result = JOB_CANCELED
  /\ job[last.ret].installed
  /\ ~job[last.ret].reloaded
  /\ n_installed_jobs = 1

(* the original statement of C21: the jobs on the run queue are the installed
   jobs in state waiting *)
C21_QueuedIffInstalledWaiting ==
  \A h \in Handles :
    job[h].in_run_queue <=> (job[h].installed /\ job[h].state = JOB_WAITING)

(* C21: in every reachable state the jobs on the run queue are the jobs whose
   in_run_queue bit is set, each of them once, and every one of them is
   installed.  An installed waiting job may be off the queue and a running job
   may be on it. *)
C21_QueuedJobsAreInstalled ==
  /\ \A h \in Handles : job[h].in_run_queue <=> h \in Range(run_queue)
  /\ Cardinality(Range(run_queue)) = Len(run_queue)
  /\ \A h \in Range(run_queue) : job[h].installed

(* job_run_and_invalidate took a waiting job that is not runnable off the
   queue and returned EAGAIN: the job stays installed, waiting and unqueued *)
C21_Witness ==
  /\ last.op = "job_run_and_invalidate"
  /\ last.outcome # "abort"
  /\ last.ret = -EAGAIN
  /\ job[last.job].installed
  /\ job[last.job].state = JOB_WAITING
  /\ ~job_is_runnable(Cur, last.job)
  /\ ~job[last.job].in_run_queue
  /\ last.job \notin Range(run_queue)

(* the jobs the id index lists *)
Indexed == {jobs[i] : i \in Ids} \ {NoJob}

(* C22: every job the id index lists is installed and listed under its own id,
   and a finish that uninstalls a job leaves no entry under the job's id, so
   that manager_get_job of that id answers nothing. *)
C22_IndexedJobsAreInstalled ==
  [][/\ \A i \in Ids : jobs'[i] # NoJob =>
            /\ job'[jobs'[i]].installed
            /\ job'[jobs'[i]].id = i
     /\ \A h \in Handles : ~job'[h].installed => h \notin Indexed'
     /\ \A i \in 1..Len(last'.finished) :
          (last'.outcome # "abort" /\ ~last'.finished[i].patched) =>
            manager_get_job(Cur', last'.finished[i].id) = NoJob]_vars

(* a primitive returned after its job had been finished and uninstalled: the
   lookup of the id job_run_and_invalidate kept found nothing *)
C22_Witness ==
  /\ last.op = "primitive_return"
  /\ last.outcome # "abort"
  /\ last.job = NoJob
  /\ last.finished = << >>

(* C23: a job whose installed flag is false, a job kept in
   pending_finished_jobs or a job that was freed, is in no slot of a unit, not
   on the run queue, not on the notification queue and has no timer source. *)
C23_UninstalledJobIsUnlinked ==
  \A h \in Handles :
    ~job[h].installed =>
      /\ \A u \in Units : unit_job[u] # h /\ nop_job[u] # h
      /\ h \notin Range(run_queue)
      /\ ~job[h].in_run_queue
      /\ h \notin dbus_job_queue
      /\ ~job[h].in_dbus_queue
      /\ ~job[h].timer_event_source

(* a deserialized job that job_coldplug gave a timer was finished during the
   reload: it is kept, uninstalled, in pending_finished_jobs *)
C23_Witness ==
  /\ last.op = "unit_notify"
  /\ last.outcome # "abort"
  /\ last.job \in pending_finished_jobs
  /\ last.job \in coldplugged
  /\ job[last.job].mem = "live"
  /\ ~job[last.job].installed
  /\ job[last.job].begin_usec > 0
  /\ JobTimeout(job[last.job].unit) > 0

(* the original statement of C24: the jobs with a timer source are the
   installed jobs of the units that declare a positive job_timeout *)
C24_TimerIffInstalledWithTimeout ==
  \A h \in Handles :
    job[h].timer_event_source <=>
      (job[h].installed /\ JobTimeout(job[h].unit) > 0)

(* C24: a job has a timer source only if it is installed and its unit declares
   a positive job_timeout, so an uninstalled job and a job of a unit with
   job_timeout zero have none; an installed job of a unit with a positive
   job_timeout that has no timer source is a deserialized job that job_coldplug
   has not yet been run for, or one whose begin_usec is zero. *)
C24_TimerOnlyIfInstalledWithTimeout ==
  \A h \in Handles :
    /\ job[h].timer_event_source =>
         (job[h].installed /\ JobTimeout(job[h].unit) > 0)
    /\ (job[h].installed /\ JobTimeout(job[h].unit) > 0
          /\ ~job[h].timer_event_source) =>
         /\ job[h].reloaded
         /\ job[h].begin_usec = 0 \/ (n_reloading > 0 /\ h \notin coldplugged)

(* job_coldplug has run for a deserialized job without a begin time on a unit
   with a positive job_timeout: the job is installed and has no timer source *)
C24_Witness ==
  /\ last.op = "job_coldplug"
  /\ last.outcome # "abort"
  /\ job[last.job].installed
  /\ JobTimeout(job[last.job].unit) > 0
  /\ job[last.job].begin_usec = 0
  /\ ~job[last.job].timer_event_source

(* call i finished a stop job, not with done, recursively *)
StopFailsRecursively(i) ==
  /\ FinishLog[i].type = JOB_STOP
  /\ FinishLog[i].result # JOB_DONE
  /\ FinishLog[i].recursive

(* call k was made by call i for a job of a unit it reached through `via` *)
CalledBy(k, i, via) ==
  /\ k > i
  /\ FinishLog[k].parent = FinishLog[i].job
  /\ FinishLog[k].via = via

(* C25: when a stop job finishes with a result other than done and recursive
   is true, the start or verify-active job in the regular slot of every unit of
   its unit's conflicted_by set is finished with result dependency, and that
   finish fails no job through the required_by, bound_by and
   required_by_overridable sets: the jobs of those units stay installed. *)
C25_StopFailureReachesConflictedBy ==
  [][\A i \in 1..Len(FinishLog) :
       StopFailsRecursively(i) =>
         LET u == FinishLog[i].unit
         IN /\ \A v \in ConflictedBy(u) :
                 (DependentJob(i, v) # NoJob /\ job[DependentJob(i, v)].type \in StartOrVerify)
                   => /\ FailedAfter(i, DependentJob(i, v))
                      /\ \E k \in 1..Len(FinishLog) :
                           /\ CalledBy(k, i, "conflicted_by")
                           /\ FinishLog[k].job = DependentJob(i, v)
                           /\ FinishLog[k].result = JOB_DEPENDENCY
            /\ \A k \in 1..Len(FinishLog) :
                 FinishLog[k].parent = FinishLog[i].job =>
                   /\ FinishLog[k].via = "conflicted_by"
                   /\ FinishLog[k].unit \in ConflictedBy(u)
            /\ \A v \in (RequiredBy(u) \cup BoundBy(u) \cup RequiredByOverridable(u))
                          \ ConflictedBy(u) :
                 (/\ DependentJob(i, v) # NoJob
                  /\ \A k \in 1..Len(FinishLog) : FinishLog[k].job # DependentJob(i, v))
                   => job'[DependentJob(i, v)].installed]_vars

(* a stop job was cancelled: the start job of the unit that conflicts with its
   unit was finished with dependency, and the start job of the unit that
   requires its unit is still installed *)
C25_Witness ==
  /\ last.outcome # "abort"
  /\ Len(last.finished) = 2
  /\ last.finished[1].type = JOB_STOP
  /\ last.finished[1].result # JOB_DONE
  /\ last.finished[1].recursive
  /\ last.finished[2].result = JOB_DEPENDENCY
  /\ last.finished[2].via = "conflicted_by"
  /\ last.finished[2].parent = last.finished[1].job
  /\ last.finished[2].unit \in ConflictedBy(last.finished[1].unit)
  /\ \E v \in RequiredBy(last.finished[1].unit) :
       /\ unit_job[v] # NoJob
       /\ job[unit_job[v]].installed
       /\ job[unit_job[v]].type = JOB_START

(* the unit reported that the work of its running stop job failed *)
StopReportedFailed ==
  /\ last'.op = "unit_notify"
  /\ last'.outcome # "abort"
  /\ last'.arg = JOB_FAILED
  /\ job[last'.job].type = JOB_STOP

(* the jobs installed in the state s *)
InstalledIn(s) == {h \in Handles : s.job[h].installed}

(* the state the same call would have left with another result *)
HadItFinishedWith(result) ==
  job_finish_and_invalidate(Cur, last'.job, result, TRUE, FALSE, TopLevel)

(* the jobs this step finished with result dependency *)
FailedByDependency ==
  {FinishLog[k].job : k \in {n \in 1..Len(FinishLog) : FinishLog[n].result = JOB_DEPENDENCY}}

(* the original statement of C26: a stop job that finishes with failed fails no
   job through conflicted_by and leaves installed what one that finishes with
   done leaves installed *)
C26_StopFailedPropagatesLikeDone ==
  [][StopReportedFailed =>
       /\ \A k \in 1..Len(FinishLog) : FinishLog[k].via # "conflicted_by"
       /\ Len(HadItFinishedWith(JOB_DONE).finished) = 1
       /\ Installed' = InstalledIn(HadItFinishedWith(JOB_DONE))]_vars

(* C26: for propagation a stop job that finishes with failed is treated as one
   that finishes with canceled or timeout, not as one that finishes with done:
   with recursive set, done fails no job, and failed finishes with dependency
   the start or verify-active job of every conflicted_by unit; the jobs failed
   leaves installed are those done leaves installed less the jobs so finished. *)
C26_StopFailedPropagatesLikeCanceled ==
  [][StopReportedFailed =>
       /\ Len(HadItFinishedWith(JOB_DONE).finished) = 1
       /\ \A v \in ConflictedBy(last'.unit) :
            (unit_job[v] # NoJob /\ job[unit_job[v]].type \in StartOrVerify)
              => /\ unit_job[v] \in FailedByDependency
                 /\ unit_job[v] \in InstalledIn(HadItFinishedWith(JOB_DONE))
                 /\ unit_job[v] \notin Installed'
       /\ Installed' = InstalledIn(HadItFinishedWith(JOB_DONE)) \ FailedByDependency
       /\ \A r \in {JOB_CANCELED, JOB_TIMEOUT} :
            /\ InstalledIn(HadItFinishedWith(r)) = Installed'
            /\ HadItFinishedWith(r).unit_job = unit_job'
            /\ HadItFinishedWith(r).run_queue = run_queue'
            /\ [k \in 1..Len(FinishLog) |-> FinishLog[k].job]
                 = [k \in 1..Len(HadItFinishedWith(r).finished) |->
                      HadItFinishedWith(r).finished[k].job]]_vars

(* a stop job finished with failed and the start job of a unit that conflicts
   with its unit was finished with dependency *)
C26_Witness ==
  /\ last.op = "unit_notify"
  /\ last.outcome # "abort"
  /\ last.arg = JOB_FAILED
  /\ Len(last.finished) = 2
  /\ last.finished[1].type = JOB_STOP
  /\ last.finished[1].result = JOB_FAILED
  /\ last.finished[2].via = "conflicted_by"
  /\ last.finished[2].type = JOB_START
  /\ last.finished[2].result = JOB_DEPENDENCY
  /\ job[last.finished[2].job].mem = "freed"

(* call k finished a job with result dependency for the call that failed a peer *)
FailedByPropagation(k) ==
  /\ FinishLog[k].result = JOB_DEPENDENCY
  /\ FinishLog[k].via # "direct"
  /\ FinishLog[k].parent # NoJob

(* the original statement of C27: a job finished with dependency by propagation
   fails no job of the units its unit is required by or bound by *)
C27_DependencyDoesNotCascade ==
  [][\A k \in 1..Len(FinishLog) :
       FailedByPropagation(k) =>
         \A m \in 1..Len(FinishLog) :
           ~(CalledBy(m, k, "required_by") \/ CalledBy(m, k, "bound_by"))]_vars

(* C27: a job finished with result dependency by propagation from a failed peer
   is finished with recursive = TRUE and cascades the failure: the start or
   verify-active job of every unit its unit is required by or bound by is
   finished with dependency in the same propagation, by the call that finished
   the dependent job. *)
C27_DependencyCascades ==
  [][\A k \in 1..Len(FinishLog) :
       FailedByPropagation(k) =>
         /\ FinishLog[k].recursive
         /\ FinishLog[k].type \in StartOrVerify
         /\ \A v \in RequiredBy(FinishLog[k].unit) \cup BoundBy(FinishLog[k].unit) :
              (DependentJob(k, v) # NoJob /\ job[DependentJob(k, v)].type \in StartOrVerify)
                => /\ FailedAfter(k, DependentJob(k, v))
                   /\ \E m \in 1..Len(FinishLog) :
                        /\ FinishLog[m].job = DependentJob(k, v)
                        /\ FinishLog[m].result = JOB_DEPENDENCY
                        /\ FinishLog[m].via # "direct"]_vars

(* a start job failed, the start job of the unit that requires its unit was
   finished with dependency, and that finish went on to the start job of the
   unit that requires the dependent job's unit *)
C27_Witness ==
  /\ last.outcome # "abort"
  /\ Len(last.finished) = 3
  /\ last.finished[1].via = "direct"
  /\ last.finished[1].type = JOB_START
  /\ last.finished[2].result = JOB_DEPENDENCY
  /\ last.finished[2].parent = last.finished[1].job
  /\ last.finished[2].unit \in RequiredBy(last.finished[1].unit)
  /\ last.finished[3].result = JOB_DEPENDENCY
  /\ last.finished[3].via = "required_by"
  /\ last.finished[3].parent = last.finished[2].job
  /\ last.finished[3].unit \in RequiredBy(last.finished[2].unit)
  /\ last.finished[3].unit \notin RequiredBy(last.finished[1].unit)
  /\ job[last.finished[3].job].mem = "freed"

(* the calls of this step that finished a job of unit u with timeout or dependency *)
TimeoutOrDependency(u) ==
  {k \in 1..Len(FinishLog) :
     FinishLog[k].unit = u /\ FinishLog[k].result \in {JOB_TIMEOUT, JOB_DEPENDENCY}}

(* the times this step asked unit_start_on_failure of unit u *)
StartedOnFailure(u) ==
  {n \in 1..Len(last'.on_failure) : last'.on_failure[n] = u}

(* C28: job_finish_and_invalidate asks unit_start_on_failure of the job's unit
   once when the result is timeout or dependency, and not at all when it is
   done, canceled, failed, skipped, invalid, assert or unsupported; a restart
   job that is patched, whose result is done, asks for none. *)
C28_OnFailureForTimeoutAndDependency ==
  [][last'.outcome # "abort" =>
       \A u \in Units :
         Cardinality(StartedOnFailure(u)) = Cardinality(TimeoutOrDependency(u))]_vars

(* the timer of a start job fired and the start job of a unit that requires
   its unit was finished with dependency: start_on_failure was asked of both
   units, of the dependent first *)
C28_Witness ==
  /\ last.op = "job_dispatch_timer"
  /\ last.outcome # "abort"
  /\ Len(last.finished) = 2
  /\ last.finished[1].result = JOB_TIMEOUT
  /\ last.finished[2].result = JOB_DEPENDENCY
  /\ last.on_failure = << last.finished[2].unit, last.finished[1].unit >>

(* C29: after job_finish_and_invalidate of a job of unit U, whatever the
   result, the restart patch included, the job in the regular slot of every
   unit of U's after set and of U's before set is on the run queue. *)
C29_FinishQueuesNeighbours ==
  [][\A k \in 1..Len(FinishLog) :
       \A v \in After(FinishLog[k].unit) \cup Before(FinishLog[k].unit) :
         unit_job'[v] # NoJob =>
           /\ job'[unit_job'[v]].installed
           /\ job'[unit_job'[v]].in_run_queue
           /\ unit_job'[v] \in Range(run_queue')]_vars

(* a job was finished while the job of a unit ordered before or after its unit
   was running: the running job is on the run queue *)
C29_Witness ==
  /\ last.outcome # "abort"
  /\ Len(last.finished) = 1
  /\ \E v \in Before(last.finished[1].unit) :
       /\ unit_job[v] # NoJob
       /\ job[unit_job[v]].state = JOB_RUNNING
       /\ job[unit_job[v]].in_run_queue
       /\ unit_job[v] \in Range(run_queue)

(* C30: n_failed_jobs is the number of calls of job_finish_and_invalidate made
   so far with result failed or invalid: each of them adds one, and a finish
   with any other result, the restart patch included, adds nothing. *)
C30_FailedJobsAreTheFailedFinishes ==
  n_failed_jobs = finished_failed

(* a start job was finished with failed and a dependent job with dependency:
   of the two finishes one is counted *)
C30_Witness ==
  /\ last.outcome # "abort"
  /\ Len(last.finished) = 2
  /\ last.finished[1].result = JOB_FAILED
  /\ last.finished[2].result = JOB_DEPENDENCY
  /\ n_failed_jobs = 1

(* a request met a running occupant of its slot *)
RunningOccupant ==
  /\ last'.op = "manager_add_job"
  /\ last'.outcome # "abort"
  /\ last'.arg \in RegularTypes
  /\ RequestedSlot # NoJob
  /\ job[RequestedSlot].state = JOB_RUNNING

(* C31: a new reload job is never merged into a running job without running it
   again: when the occupant is a running start, verify-active, reload or
   restart job, job_install sets it back to waiting and it is queued to be
   dispatched again; a new job of another type, of which the running
   occupant's type is a superset, is merged and the occupant stays running. *)
C31_ReloadRunsTheOccupantAgain ==
  [][RunningOccupant =>
       /\ (/\ last'.arg = JOB_RELOAD
           /\ job[RequestedSlot].type \in {JOB_START, JOB_VERIFY_ACTIVE, JOB_RELOAD, JOB_RESTART})
            => /\ last'.outcome = "rerun"
               /\ last'.ret = RequestedSlot
               /\ job'[RequestedSlot].installed
               /\ job'[RequestedSlot].state = JOB_WAITING
               /\ job'[RequestedSlot].in_run_queue
               /\ RequestedSlot \in Range(run_queue')
               /\ n_running_jobs' = n_running_jobs - 1
       /\ (/\ last'.arg # JOB_RELOAD
           /\ job_type_lookup_merge(job[RequestedSlot].type, last'.arg) = job[RequestedSlot].type)
            => /\ last'.outcome = "merged"
               /\ last'.ret = RequestedSlot
               /\ job'[RequestedSlot].state = JOB_RUNNING
               /\ job'[RequestedSlot].type = job[RequestedSlot].type
               /\ n_running_jobs' = n_running_jobs]_vars

(* a reload request met a running restart job, whose type is a superset of
   reload: the restart job is waiting again and on the run queue *)
C31_Witness ==
  /\ last.op = "manager_add_job"
  /\ last.outcome = "rerun"
  /\ last.arg = JOB_RELOAD
  /\ last.merged_job.type = JOB_RELOAD
  /\ last.ret = unit_job[last.unit]
  /\ job[last.ret].type = JOB_RESTART
  /\ job[last.ret].state = JOB_WAITING
  /\ job[last.ret].in_run_queue

(* the units of u's after set that have a regular-slot job *)
AfterJobs(u) == {o \in After(u) : unit_job[o] # NoJob}

(* the units of u's before set that have a regular-slot stop or restart job *)
BeforeStops(u) ==
  {o \in Before(u) : unit_job[o] # NoJob /\ job[unit_job[o]].type \in {JOB_STOP, JOB_RESTART}}

(* runnability as it is specified *)
SpecifiedRunnable(h) ==
  \/ job[h].ignore_order
  \/ job[h].type = JOB_NOP
  \/ /\ job[h].type \notin {JOB_START, JOB_VERIFY_ACTIVE, JOB_RELOAD}
          \/ AfterJobs(job[h].unit) = {}
     /\ BeforeStops(job[h].unit) = {}

(* this step is job_run_and_invalidate of the waiting job h *)
Dispatches(h) ==
  /\ last'.op = "job_run_and_invalidate"
  /\ last'.outcome # "abort"
  /\ last'.job = h
  /\ job[h].state = JOB_WAITING

(* the job was taken as runnable: a primitive was called, or the job was
   finished, or a verify-active job went to running and back to waiting *)
TakenAsRunnable(h) ==
  \/ call'.active /\ call'.id = job[h].id /\ job'[h].state = JOB_RUNNING
  \/ last'.finished # << >> /\ last'.finished[1].job = h
  \/ /\ job[h].type = JOB_VERIFY_ACTIVE
     /\ last'.ret = -EAGAIN
     /\ job'[h].in_dbus_queue

(* the job was left as not runnable: EAGAIN, and nothing but the queue changed *)
LeftAsNotRunnable(h) ==
  /\ last'.ret = -EAGAIN
  /\ ~call'.active
  /\ last'.finished = << >>
  /\ job' = [job EXCEPT ![h].in_run_queue = FALSE]
  /\ n_running_jobs' = n_running_jobs

(* C32: job_is_runnable is true exactly when the job has ignore_order, or is a
   nop job, or both no unit of its unit's after set has a regular-slot job
   unless its type is none of start, verify-active and reload, and no unit of
   its unit's before set has a regular-slot stop or restart job; the dispatcher
   runs the job in exactly these cases and leaves it waiting in the others. *)
C32_RunnableExactlyAsSpecified ==
  [][\A h \in Handles :
       Dispatches(h) =>
         /\ job_is_runnable(Cur, h) = SpecifiedRunnable(h)
         /\ IF SpecifiedRunnable(h) THEN TakenAsRunnable(h) ELSE LeftAsNotRunnable(h)]_vars

(* a stop job without ignore_order was dispatched and its primitive called
   while a job sits in the regular slot of a unit of its unit's after set *)
C32_Witness ==
  /\ last.op = "job_run_and_invalidate"
  /\ last.outcome # "abort"
  /\ call.active
  /\ call.type = JOB_STOP
  /\ jobs[call.id] = last.job
  /\ ~job[last.job].ignore_order
  /\ job[last.job].state = JOB_RUNNING
  /\ AfterJobs(call.unit) # {}

(* the types that may occupy a slot *)
SlotTypes == 0..(JOB_TYPE_MAX_IN_TRANSACTION - 1)

(* C33: job_type_collapse resolves every compound type into a type that may
   occupy a slot, in every activation state: try-restart into nop for a unit
   that is inactive or deactivating and into restart otherwise, reload-or-start
   into start for such a unit and into reload otherwise, try-reload into a slot
   type as well, and returns every other type as it is. *)
C33_CollapseGivesSlotType ==
  last.op = "job_type_collapse" =>
    /\ last.ret \in SlotTypes
    /\ last.t = JOB_TRY_RESTART =>
         last.ret = IF UNIT_IS_INACTIVE_OR_DEACTIVATING(last.active)
                    THEN JOB_NOP ELSE JOB_RESTART
    /\ last.t = JOB_RELOAD_OR_START =>
         last.ret = IF UNIT_IS_INACTIVE_OR_DEACTIVATING(last.active)
                    THEN JOB_START ELSE JOB_RELOAD
    /\ last.t \in SlotTypes => last.ret = last.t

(* the pairs of a type and an activation state that are specified as redundant *)
SpecifiedRedundant ==
  {<< JOB_START, UNIT_ACTIVE >>, << JOB_START, UNIT_RELOADING >>,
   << JOB_VERIFY_ACTIVE, UNIT_ACTIVE >>, << JOB_VERIFY_ACTIVE, UNIT_RELOADING >>,
   << JOB_STOP, UNIT_INACTIVE >>, << JOB_STOP, UNIT_FAILED >>,
   << JOB_RELOAD, UNIT_RELOADING >>,
   << JOB_RESTART, UNIT_ACTIVATING >>}
    \cup {<< JOB_NOP, b >> : b \in UnitActiveStates}

(* C34: job_type_is_redundant(type, state) is true for start and verify-active
   with the unit active or reloading, for stop with the unit inactive or
   failed, for reload with the unit reloading, for restart with the unit
   activating and for nop in every state, and false for every other pair of
   one of these six types and an activation state. *)
C34_RedundantExactlyAsSpecified ==
  (last.op = "job_type_is_redundant" /\ last.a \in SlotTypes) =>
    /\ last.asserts
    /\ last.ret = (<< last.a, last.b >> \in SpecifiedRedundant)

(* a stop job against a deactivating unit is not redundant *)
C34_Witness ==
  /\ last.op = "job_type_is_redundant"
  /\ last.a = JOB_STOP
  /\ last.b = UNIT_DEACTIVATING
  /\ last.asserts
  /\ ~last.ret

(* this step dispatched the waiting, runnable job h of type t *)
DispatchesRunnable(h, t) ==
  /\ Dispatches(h)
  /\ job[h].type = t
  /\ SpecifiedRunnable(h)

(* the step finished job h, first of all, with this result *)
FinishedFirst(h, result, already) ==
  /\ last'.finished # << >>
  /\ last'.finished[1].job = h
  /\ last'.finished[1].result = result
  /\ last'.finished[1].recursive
  /\ last'.finished[1].already = already
  /\ ~job'[h].installed

(* C35: the dispatch of a runnable verify-active job calls no primitive and
   goes by the activation state of the unit: active or reloading finishes the
   job with done, already set; activating sets the job back to waiting,
   installed; any other state finishes it with skipped, recursively, so that
   the start or verify-active job of a unit that requires its unit is finished
   with dependency.  The dispatch of a nop job finishes it with done. *)
C35_VerifyActiveGoesByTheState ==
  [][\A h \in Handles :
       /\ DispatchesRunnable(h, JOB_VERIFY_ACTIVE) =>
            /\ call' = call
            /\ ~call'.active
            /\ last'.active \in UnitActiveStates
            /\ IF UNIT_IS_ACTIVE_OR_RELOADING(last'.active)
               THEN FinishedFirst(h, JOB_DONE, TRUE) /\ Len(last'.finished) = 1
               ELSE IF last'.active = UNIT_ACTIVATING
               THEN /\ last'.finished = << >>
                    /\ last'.ret = -EAGAIN
                    /\ job'[h].installed
                    /\ job'[h].state = JOB_WAITING
                    /\ job'[h].type = JOB_VERIFY_ACTIVE
                    /\ unit_job'[job[h].unit] = h
                    /\ n_running_jobs' = n_running_jobs
               ELSE /\ FinishedFirst(h, JOB_SKIPPED, FALSE)
                    /\ \A v \in RequiredBy(job[h].unit) :
                         (DependentJob(1, v) # NoJob
                            /\ job[DependentJob(1, v)].type \in StartOrVerify)
                           => FailedAfter(1, DependentJob(1, v))
       /\ DispatchesRunnable(h, JOB_NOP) =>
            /\ call' = call
            /\ ~call'.active
            /\ FinishedFirst(h, JOB_DONE, TRUE)
            /\ Len(last'.finished) = 1]_vars

(* a verify-active job of an inactive unit was dispatched: it finished with
   skipped and the start job of the unit that requires its unit with dependency *)
C35_Witness ==
  /\ last.op = "job_run_and_invalidate"
  /\ last.outcome # "abort"
  /\ last.arg = JOB_VERIFY_ACTIVE
  /\ last.active = UNIT_INACTIVE
  /\ Len(last.finished) = 2
  /\ last.finished[1].job = last.job
  /\ last.finished[1].result = JOB_SKIPPED
  /\ last.finished[2].result = JOB_DEPENDENCY
  /\ last.finished[2].via = "required_by"
  /\ last.finished[2].type = JOB_START
  /\ last.finished[2].unit \in RequiredBy(last.unit)

(* the primitive returns in this step, and the job it was called for was
   uninstalled while it executed *)
ReturnsToGoneJob ==
  /\ call.active
  /\ last'.op = "primitive_return"
  /\ manager_get_job(Cur, call.id) = NoJob

(* the jobs, slots, index, queues and counters are as they were *)
JobsUntouched ==
  /\ job' = job
  /\ unit_job' = unit_job
  /\ nop_job' = nop_job
  /\ jobs' = jobs
  /\ run_queue' = run_queue
  /\ dbus_job_queue' = dbus_job_queue
  /\ pending_finished_jobs' = pending_finished_jobs
  /\ n_installed_jobs' = n_installed_jobs
  /\ n_running_jobs' = n_running_jobs
  /\ n_failed_jobs' = n_failed_jobs

(* entry i of the step's finishes uninstalls a job that was installed when the
   step began or was installed by the step, and no later entry names its id *)
FinishedOnce(i) ==
  /\ \/ manager_get_job(Cur, last'.finished[i].id) = last'.finished[i].job
     \/ last'.finished[i].id >= current_job_id
  /\ manager_get_job(Cur', last'.finished[i].id) = NoJob
  /\ \A k \in 1..Len(last'.finished) :
       k # i => last'.finished[k].id # last'.finished[i].id

(* C36: when the job was uninstalled while its primitive executed (canceled by
   a conflicting install or finished by its unit), the return of the primitive
   finishes nothing and changes no job, queue or counter, whatever the code
   returned; and no step finishes a job that is not installed, nor one job
   twice. *)
C36_NothingAfterTheJobIsGone ==
  [][/\ ReturnsToGoneJob =>
          /\ last'.outcome # "abort"
          /\ last'.finished = << >>
          /\ last'.removed = << >>
          /\ last'.job = NoJob
          /\ last'.ret = job_run_switch_result(call.type, last'.arg)
          /\ JobsUntouched
     /\ assert_failed' # "job_finish_and_invalidate: j->installed"
     /\ assert_failed' # "job_uninstall: j->installed"
     /\ current_job_id' >= current_job_id
     /\ \A i \in 1..Len(FinishLog) :
          ~FinishLog[i].patched => FinishedOnce(i)]_vars

(* the primitive of a job that was uninstalled meanwhile returned an error that
   would fail the job: nothing was finished and no failure counted *)
C36_Witness ==
  /\ last.op = "primitive_return"
  /\ last.outcome # "abort"
  /\ last.job = NoJob
  /\ last.arg = -EIO
  /\ last.ret = -EIO
  /\ last.finished = << >>
  /\ n_failed_jobs = 0
  /\ ~call.active

(* entry i of the step's finishes is of a deserialized job, in a reload *)
FinishedInReload(i) ==
  /\ n_reloading > 0
  /\ job[FinishLog[i].job].reloaded

(* job h is on no queue, has no timer and was not announced as removed *)
KeptQuietly(h) ==
  /\ h \in pending_finished_jobs'
  /\ job'[h].mem # "freed"
  /\ ~job'[h].installed
  /\ h \notin Range(run_queue')
  /\ ~job'[h].in_run_queue
  /\ h \notin dbus_job_queue'
  /\ ~job'[h].in_dbus_queue
  /\ ~job'[h].timer_event_source
  /\ h \notin Range(last'.removed)

(* C37: a job that finishes, not patched to a start job, while a reload is in
   progress and that was installed by deserialization is kept in
   pending_finished_jobs, on no queue, without timer, and is not announced as
   removed; a job that finishes outside a reload, or that was not deserialized,
   is freed and never put in pending_finished_jobs. *)
C37_KeptOnlyInReload ==
  [][/\ \A i \in 1..Len(FinishLog) :
          ~FinishLog[i].patched =>
            IF FinishedInReload(i)
            THEN KeptQuietly(FinishLog[i].job)
            ELSE /\ FinishLog[i].job \notin pending_finished_jobs'
                 /\ job'[FinishLog[i].job] = FreedJob
     /\ \A h \in pending_finished_jobs' \ pending_finished_jobs :
          \E i \in 1..Len(FinishLog) :
            /\ FinishLog[i].job = h
            /\ ~FinishLog[i].patched
            /\ FinishedInReload(i)]_vars

(* a deserialized job failed during the reload: it is kept, it was counted as
   failed and no removed notification was sent *)
C37_Witness ==
  /\ last.op = "unit_notify"
  /\ last.outcome # "abort"
  /\ n_reloading > 0
  /\ Len(last.finished) >= 1
  /\ last.finished[1].result = JOB_FAILED
  /\ last.finished[1].job \in pending_finished_jobs
  /\ last.removed = << >>
  /\ n_failed_jobs >= 1

(* this step is a request for a nop job of a unit whose nop slot is occupied *)
NopOnNop ==
  /\ last'.op = "manager_add_job"
  /\ last'.arg = JOB_NOP
  /\ nop_job[last'.unit] # NoJob

(* C39: the install of a nop job on a unit whose nop slot holds a nop job
   violates no assertion: the job in the slot is returned, still of type nop,
   with the flags of both, and the job in the regular slot of the unit, if any,
   is neither canceled nor merged nor changed. *)
C39_NopMergesIntoNop ==
  [][NopOnNop =>
       /\ assert_failed' = "none"
       /\ last'.outcome = "merged"
       /\ last'.ret = nop_job[last'.unit]
       /\ nop_job' = nop_job
       /\ unit_job' = unit_job
       /\ job'[nop_job[last'.unit]].type = JOB_NOP
       /\ job'[nop_job[last'.unit]].installed
       /\ job'[nop_job[last'.unit]].override =
            (job[nop_job[last'.unit]].override \/ last'.merged_job.override)
       /\ job'[nop_job[last'.unit]].irreversible =
            (job[nop_job[last'.unit]].irreversible \/ last'.merged_job.irreversible)
       /\ job'[nop_job[last'.unit]].ignore_order =
            (job[nop_job[last'.unit]].ignore_order \/ last'.merged_job.ignore_order)
       /\ last'.finished = << >>
       /\ \A h \in Handles : job[h].installed /\ job[h].type # JOB_NOP => job'[h] = job[h]]_vars

(* this step is job_run_and_invalidate of job h *)
RunsAndInvalidates(h) ==
  /\ last'.op = "job_run_and_invalidate"
  /\ last'.outcome # "abort"
  /\ last'.job = h

(* nothing but the job's place on the run queue changed *)
OnlyDequeued(h) ==
  /\ job' = [job EXCEPT ![h].in_run_queue = FALSE]
  /\ call' = call
  /\ last'.finished = << >>
  /\ dbus_job_queue' = dbus_job_queue
  /\ unit_job' = unit_job
  /\ nop_job' = nop_job
  /\ jobs' = jobs
  /\ n_running_jobs' = n_running_jobs
  /\ n_installed_jobs' = n_installed_jobs
  /\ n_failed_jobs' = n_failed_jobs

(* C40: job_run_and_invalidate takes the job off the run queue first; it calls
   a primitive only for a job that was waiting and runnable; for a job that is
   running it returns 0, calls no primitive and leaves the job as it is; for a
   waiting job that is not runnable it returns EAGAIN and leaves the job
   installed and waiting and n_running_jobs as it was. *)
C40_OnlyWaitingRunnableJobsRun ==
  [][\A h \in Handles :
       RunsAndInvalidates(h) =>
         /\ h = Head(run_queue)
         /\ h \notin Range(run_queue')
         /\ ~job'[h].in_run_queue
         /\ (call'.active /\ ~call.active) =>
              /\ job[h].state = JOB_WAITING
              /\ job_is_runnable(Cur, h)
              /\ call'.id = job[h].id
              /\ call'.primitive = job_run_primitive(job[h].type)
         /\ job[h].state = JOB_RUNNING =>
              /\ last'.ret = 0
              /\ OnlyDequeued(h)
         /\ (job[h].state = JOB_WAITING /\ ~job_is_runnable(Cur, h)) =>
              /\ last'.ret = -EAGAIN
              /\ OnlyDequeued(h)
              /\ job'[h].installed
              /\ job'[h].state = JOB_WAITING]_vars

(* a job that was running came up on the run queue and was dispatched: it is
   off the queue, still running, and no primitive was called *)
C40_Witness ==
  /\ last.op = "job_run_and_invalidate"
  /\ last.outcome # "abort"
  /\ last.ret = 0
  /\ last.finished = << >>
  /\ ~call.active
  /\ job[last.job].installed
  /\ job[last.job].state = JOB_RUNNING
  /\ ~job[last.job].in_run_queue
  /\ n_running_jobs >= 1

(***************************************************************************)
(* Progress.  The units of the ordering chain, requests without flags, and *)
(* the scheduling the event loop gives: a queued job is dispatched, a      *)
(* primitive returns, a unit whose job is running reports the outcome, and *)
(* the notification queue is drained.                                      *)
(***************************************************************************)
LiveTypes == {JOB_START, JOB_VERIFY_ACTIVE, JOB_STOP, JOB_RELOAD, JOB_RESTART}

InitLive == Init /\ graph = 1

NextLive ==
  \/ /\ n_alloc < MaxRequests
     /\ \E u \in Units, t \in LiveTypes, now \in Clock :
          AddJob(u, t, NoFlags, UNIT_INACTIVE, now)
  \/ Engine

(* the run queues a step may leave *)
RunQueues == UNION { [1..n -> Handles] : n \in 0..MaxJobs }

(* manager_dispatch_run_queue takes the job at the head off the run queue
   (job_run_and_invalidate; the conditions are those of DispatchRunQueue) *)
HeadIsTaken ==
  /\ Alive
  /\ n_reloading = 0
  /\ ~call.active
  /\ dispatching \/ dbus_job_queue = {}
  /\ run_queue # << >>
  /\ \E q \in RunQueues :
       /\ Head(run_queue) \notin Range(q)
       /\ run_queue' = q

(* the primitive job_run_and_invalidate is inside of returns (the condition is
   that of PrimitiveReturn) *)
PrimitiveIsLeft ==
  /\ Alive
  /\ call.active
  /\ call' = NoCall

(* the unit whose job is running reports an outcome, and the job is running no
   longer (the conditions are those of UnitNotify) *)
UnitReports(u) ==
  /\ Alive
  /\ call.active \/ Idle \/ n_reloading > 0
  /\ unit_job[u] # NoJob
  /\ job[unit_job[u]].state = JOB_RUNNING
  /\ \E n \in 0..MaxJobs :
       /\ n < n_running_jobs
       /\ n_running_jobs' = n

(* The scheduling: each condition names the step by the one variable every such
   step changes, which is the run queue for a dispatch, the call for the return
   of a primitive and the count of running jobs for the report of a unit. *)
FairLive ==
  /\ WF_run_queue(HeadIsTaken)
  /\ WF_call(PrimitiveIsLeft)
  /\ \A u \in Units : WF_n_running_jobs(UnitReports(u))
  /\ WF_vars(DispatchDbusQueue)

SpecLive == InitLive /\ [][NextLive]_vars /\ FairLive

(* the answer of the last step asks for the job to be tried again: a primitive
   returned EAGAIN, or a verify-active job found its unit activating *)
RetryAsked ==
  /\ last.ret = -EAGAIN
  /\ \/ last.op = "primitive_return" /\ last.job # NoJob
     \/ last.op = "job_run_and_invalidate" /\ last.active = UNIT_ACTIVATING

(* job h waits off the run queue for a job of a neighbour *)
WaitsForPeer(h) ==
  /\ job[h].installed
  /\ job[h].state = JOB_WAITING
  /\ ~job[h].in_run_queue
  /\ ~job_is_runnable(Cur, h)

(* C38 as stated: with the ordering chain, no ignore_order flag, every job
   queued at its install, and the dispatcher, the primitives and the units
   scheduled fairly, every installed job is eventually uninstalled. *)
C38_EveryJobIsUninstalled ==
  \A h \in Handles : job[h].installed ~> ~job[h].installed

(* C38: under the same assumptions, and if no primitive returns EAGAIN and no
   verify-active job is dispatched while its unit is activating, every
   installed job is eventually uninstalled, and a job that waits off the run
   queue for the job of a neighbour is eventually running or uninstalled. *)
C38_EveryJobIsUninstalledUnlessRetried ==
  ([]~RetryAsked) =>
    \A h \in Handles :
      /\ job[h].installed ~> ~job[h].installed
      /\ WaitsForPeer(h) ~> (job[h].state = JOB_RUNNING \/ ~job[h].installed)

(* the start job of unit 1 finished with done while the start job of unit 2,
   ordered after it, waited: that job is on the run queue again *)
C38_Witness ==
  /\ last.op = "unit_notify"
  /\ last.outcome # "abort"
  /\ last.unit = 1
  /\ Len(last.finished) = 1
  /\ last.finished[1].type = JOB_START
  /\ last.finished[1].result = JOB_DONE
  /\ unit_job[2] # NoJob
  /\ job[unit_job[2]].type = JOB_START
  /\ job[unit_job[2]].state = JOB_WAITING
  /\ job[unit_job[2]].in_run_queue
  /\ Head(run_queue) = unit_job[2]
  /\ job_is_runnable(Cur, unit_job[2])

=============================================================================
